---- MODULE Spec2Model ----
(***************************************************************************)
(* Balance engine (features/balance.py, models/account_model.py,           *)
(* models/transactions_model.py) and recurring scheduler                   *)
(* (features/recurring.py, core/scheduler.py) of Certified-Budget-Boy.     *)
(*                                                                         *)
(* Money is counted in whole units of the ledger currency.  The store is   *)
(* MySQL: every statement is committed on its own, an UPDATE reports the   *)
(* number of rows it CHANGED (mysql.connector's default), and a statement  *)
(* may raise mysql.connector.Error.  The audit tables (account_logs,       *)
(* audit_log) are write-only sinks that no modelled operation reads; they  *)
(* are represented by the exceptions their writers raise.                  *)
(*                                                                         *)
(* AccountModel.assert_account_access is called but defined nowhere in the *)
(* source; it is taken to pass for an account get_account finds.           *)
(* Scheduler commands and run_due invocations are serialised here; the     *)
(* rows of run_due's SELECT (no ORDER BY) come in recurring_id order.      *)
(***************************************************************************)
EXTENDS Integers, Sequences, FiniteSets, TLC

\* ---------------------------------------------------------------- bounds
NumAccounts == 2
MaxAmount == 2
MaxCalls == 2
NumRules == 2
MaxSchedulerCalls == 3
MaxTicks == 1
MaxStoreFailures == 1
MaxInterval == 13
NumYears == 2
NumUsers == 2

\* ------------------------------------------------------------- constants
\* Python's None for an id argument (`if not account_id`).
NoAccount == 0
\* The opening balance the accounts are created with.
OpeningBalance == 1

AccountIds == 1..NumAccounts
Amounts == 0..MaxAmount

credited_trans_types == {"income", "debt_borrowed"}
debited_trans_types == {"debt_repaid", "expense"}
transfer_types == {"transfer", "investment_deposit", "investment_withdraw"}
TransactionTypes == credited_trans_types \cup debited_trans_types \cup transfer_types

VARIABLES
    accounts,       \* table accounts: account_id -> row
    transactions,   \* table transactions: set of rows
    next_tx_id,     \* AUTO_INCREMENT of transactions
    calls,          \* number of public calls made so far
    last,           \* the last public call: arguments, outcome, balances before it
    recurring,      \* table recurring_transactions: recurring_id -> row
    recurring_logs, \* table recurring_logs: the execution records, in insertion order
    now,            \* the clock: datetime.now()
    run,            \* the run_due invocation in progress, or the last one that returned
    eval,           \* the last evaluation of a rule by run_due
    overlapping,    \* a second run_due invocation, begun while `run` is in progress
    advance,        \* a call of _calculate_next_due: its arguments and what it gave
    inflight        \* the apply_transaction_change calls of two connections, statement by statement

balance_vars == <<accounts, transactions, next_tx_id, calls, last>>
recurring_vars == <<recurring, recurring_logs, now, run, eval, overlapping, advance, inflight>>
vars == <<accounts, transactions, next_tx_id, calls, last, recurring, recurring_logs, now, run, eval, overlapping, advance, inflight>>

\* ------------------------------------------------------- result threading
\* A helper returns the accounts table it leaves behind and the exception it
\* raised ("none" when it returned).
Returned(accts) == [accounts |-> accts, exc |-> "none"]
Raised(accts, e) == [accounts |-> accts, exc |-> e]

Balances(accts) == [a \in AccountIds |-> accts[a].balance]

\* ------------------------------------------------------------ AccountModel
\* get_account: the row exists, is the caller's and is not deleted.
get_account(accts, account_id) == account_id \in DOMAIN accts

\* The parameters audit_logs declares, and its call with keyword arguments:
\* Python raises TypeError for a keyword that names no parameter.
audit_logs_parameters ==
    {"accout_id", "action", "transaction_id", "old_balance", "new_balance", "new_values"}
audit_logs(keywords) ==
    IF keywords \subseteq audit_logs_parameters THEN "none" ELSE "TypeError"

\* update_account(account_id, source=..., balance=...):
\*   UPDATE accounts SET source=%s, balance=%s WHERE account_id=%s AND owner_id=%s
\* store_fails: the UPDATE raises mysql.connector.Error.
update_account(accts, account_id, source, balance, store_fails) ==
    IF ~get_account(accts, account_id) THEN Raised(accts, "AccountNotFoundError")
    ELSE IF store_fails THEN Raised(accts, "AccountDataBaseError")
    ELSE IF accts[account_id].source = source /\ accts[account_id].balance = balance
         THEN Raised(accts, "AccountNotFoundError")   \* rowcount 0: "not found or unchanged"
    ELSE Returned([accts EXCEPT ![account_id].source = source,
                                ![account_id].balance = balance])

\* ---------------------------------------------------------- BalanceService
\* _validate_account_active without the look at is_active.
_validate_account_exists(accts, account_id) ==
    IF ~get_account(accts, account_id) THEN "BalanceValidationError" ELSE "none"

_validate_account_active(accts, account_id) ==
    IF ~get_account(accts, account_id) THEN "BalanceValidationError"
    ELSE IF ~accts[account_id].is_active THEN "BalanceValidationError"
    ELSE "none"

\* _log_balance_change passes account_id= and source= to audit_logs.
_log_balance_change ==
    audit_logs({"account_id", "action", "source", "transaction_id",
                "old_balance", "new_balance", "new_values"})

\* _check_sufficient_funds that lets every debit through.
_check_sufficient_funds_overdraft(accts, account_id, amount, allow_overdraft) ==
    _validate_account_active(accts, account_id)

_check_sufficient_funds(accts, account_id, amount, allow_overdraft) ==
    LET v == _validate_account_active(accts, account_id) IN
    IF v # "none" THEN v
    ELSE IF ~allow_overdraft /\ accts[account_id].balance < amount
         THEN "InsufficientFundsError"
    ELSE "none"

\* fail: the ordinal of the UPDATE accounts statement of this call that raises
\* mysql.connector.Error (0: none does).
_apply_credit(accts, account_id, amount, source, fail) ==
    LET v == _validate_account_active(accts, account_id) IN
    IF v # "none" THEN Raised(accts, v)
    ELSE LET u == update_account(accts, account_id, source,
                                 accts[account_id].balance + amount, fail = 1) IN
         IF u.exc # "none" THEN u
         ELSE IF _log_balance_change # "none" THEN Raised(u.accounts, _log_balance_change)
         ELSE u

_apply_debit(accts, account_id, amount, source, allow_overdraft, fail) ==
    LET c == _check_sufficient_funds(accts, account_id, amount, allow_overdraft) IN
    IF c # "none" THEN Raised(accts, c)
    ELSE LET u == update_account(accts, account_id, source,
                                 accts[account_id].balance - amount, fail = 1) IN
         IF u.exc # "none" THEN u
         ELSE IF _log_balance_change # "none" THEN Raised(u.accounts, _log_balance_change)
         ELSE u

_apply_transfer(accts, source_account_id, dest_account_id, amount, source, allow_overdraft, fail) ==
    IF source_account_id = dest_account_id THEN Raised(accts, "BalanceValidationError")
    ELSE
    LET c == _check_sufficient_funds(accts, source_account_id, amount, allow_overdraft)
        vd == _validate_account_active(accts, dest_account_id)
    IN
    IF c # "none" THEN Raised(accts, c)
    ELSE IF vd # "none" THEN Raised(accts, vd)
    ELSE
    LET source_new == accts[source_account_id].balance - amount
        dest_new == accts[dest_account_id].balance + amount
        u1 == update_account(accts, source_account_id, source, source_new, fail = 1)
    IN
    IF u1.exc # "none" THEN u1
    ELSE LET u2 == update_account(u1.accounts, dest_account_id, source, dest_new,
                                  fail = 2) IN
         IF u2.exc # "none" THEN u2
         ELSE IF _log_balance_change # "none" THEN Raised(u2.accounts, _log_balance_change)
         ELSE u2

apply_transaction_change(accts, transaction_type, amount, account_id, source_account_id, destination_account_id, allow_overdraft, fail) ==
    IF transaction_type \in {"income", "debt_borrowed"} THEN
        IF account_id = NoAccount THEN Raised(accts, "BalanceValidationError")
        ELSE _apply_credit(accts, account_id, amount, transaction_type, fail)
    ELSE IF transaction_type \in {"expense", "debt_repaid"} THEN
        IF account_id = NoAccount THEN Raised(accts, "BalanceValidationError")
        ELSE _apply_debit(accts, account_id, amount, transaction_type,
                         allow_overdraft, fail)
    ELSE IF transaction_type \in {"transfer", "investment_deposit", "investment_withdraw"} THEN
        IF source_account_id = NoAccount \/ destination_account_id = NoAccount
        THEN Raised(accts, "BalanceValidationError")
        ELSE _apply_transfer(accts, source_account_id, destination_account_id, amount,
                            transaction_type, allow_overdraft, fail)
    ELSE Raised(accts, "BalanceValidationError")

\* _reverse_transaction / reverse_transaction_change.
_reverse_transaction(accts, source, transaction_type, amount, account_id, source_account_id, destination_account_id, fail) ==
    IF transaction_type \in credited_trans_types THEN
        _apply_debit(accts, account_id, amount, source, TRUE, fail)
    ELSE IF transaction_type \in debited_trans_types THEN
        _apply_credit(accts, account_id, amount, source, fail)
    ELSE IF transaction_type \in transfer_types THEN
        _apply_transfer(accts, destination_account_id, source_account_id, amount,
                       source, TRUE, fail)
    ELSE Raised(accts, "BalanceValidationError")


\* rebuild_account_balance: the rows the SELECT returns and what each adds.
RebuildRows(txs, account_id) ==
    {tx \in txs : /\ \/ tx.account_id = account_id
                     \/ tx.source_account_id = account_id
                     \/ tx.destination_account_id = account_id
                  /\ ~tx.is_deleted}

RebuildEffect(tx, account_id) ==
    IF tx.transaction_type \in {"income", "debt_borrowed"} /\ tx.account_id = account_id
        THEN tx.amount
    ELSE IF tx.transaction_type \in {"expense", "debt_repaid"} /\ tx.account_id = account_id
        THEN 0 - tx.amount
    ELSE IF tx.transaction_type \in {"transfer", "investment_deposit", "investment_withdraw"}
        THEN IF tx.source_account_id = account_id THEN 0 - tx.amount
             ELSE IF tx.destination_account_id = account_id THEN tx.amount
             ELSE 0
    ELSE 0

RECURSIVE RebuildSum(_, _)
RebuildSum(rows, account_id) ==
    IF rows = {} THEN 0
    ELSE LET tx == CHOOSE t \in rows : TRUE IN
         RebuildEffect(tx, account_id) + RebuildSum(rows \ {tx}, account_id)

NoRebuild(accts, e) == [accounts |-> accts, exc |-> e, old_balance |-> 0, new_balance |-> 0, difference |-> 0, transactions_processed |-> 0]

rebuild_account_balance(accts, txs, account_id, fail) ==
    LET v == _validate_account_active(accts, account_id) IN
    IF v # "none" THEN NoRebuild(accts, v)
    ELSE
    LET old_balance == accts[account_id].balance
        rows == RebuildRows(txs, account_id)
        calculated_balance == accts[account_id].opening_balance + RebuildSum(rows, account_id)
        u == update_account(accts, account_id, "BALANCE_REBUILD", calculated_balance, fail = 1)
    IN
    IF u.exc # "none" THEN NoRebuild(u.accounts, u.exc)
    ELSE IF _log_balance_change # "none" THEN NoRebuild(u.accounts, _log_balance_change)
    ELSE [accounts |-> u.accounts, exc |-> "none",
          old_balance |-> old_balance, new_balance |-> calculated_balance,
          difference |-> calculated_balance - old_balance,
          transactions_processed |-> Cardinality(rows)]

\* list_account(include_deleted=False, global_view=False): the caller's
\* accounts ORDER BY balance DESC, in the order the store gives equal balances.
list_account(accts, order) ==
    [i \in 1..Len(order) |->
        [account_id |-> order[i], is_active |-> accts[order[i]].is_active,
         balance |-> accts[order[i]].balance]]

\* The orders the store can return the accounts in.
ListOrders(accts) ==
    {order \in [1..Cardinality(DOMAIN accts) -> DOMAIN accts] :
        /\ \A i, j \in DOMAIN order : i # j => order[i] # order[j]
        /\ \A i, j \in DOMAIN order :
              i < j => accts[order[i]].balance >= accts[order[j]].balance}

\* The body of rebuild_all_balances' loop, given what the rebuild did: the
\* result of the rebuild, or the account and the exception's text.
rebuild_all_entry(r, account_id) ==
    IF r.exc # "none"
    THEN [account_id |-> account_id, error |-> r.exc, new_balance |-> 0, difference |-> 0]
    ELSE [account_id |-> account_id, error |-> "none",
          new_balance |-> r.new_balance, difference |-> r.difference]

\* rebuild_all_balances from the i-th listed account on.  failing: the account
\* whose UPDATE the store refuses (NoAccount: none).
RECURSIVE rebuild_all_balances(_, _, _, _, _, _)
rebuild_all_balances(accts, txs, all_accounts, i, failing, results) ==
    IF i > Len(all_accounts) THEN [accounts |-> accts, results |-> results, exc |-> "none"]
    ELSE IF ~all_accounts[i].is_active
        THEN rebuild_all_balances(accts, txs, all_accounts, i + 1, failing, results)
    ELSE
    LET r == rebuild_account_balance(accts, txs, all_accounts[i].account_id, IF failing = all_accounts[i].account_id THEN 1 ELSE 0)
    IN
    rebuild_all_balances(r.accounts, txs, all_accounts, i + 1, failing,
                         Append(results, rebuild_all_entry(r, all_accounts[i].account_id)))

\* -------------------------------------------------------- TransactionModel
\* AccountModel.assert_account_access: the account is the caller's and not deleted.
assert_account_access(accts, account_id) ==
    IF get_account(accts, account_id) THEN "none" ELSE "AccountNotFoundError"

_validate_transaction_accounts(accts, transaction_type, account_id, source_acc, dest_acc) ==
    IF transaction_type \in {"income", "expense", "debt_borrowed", "debt_repaid"} THEN
        IF account_id = NoAccount THEN "TransactionValidationError" ELSE "none"
    ELSE IF transaction_type \in {"transfer", "investment_deposit", "investment_withdrawal"} THEN
        IF source_acc = NoAccount \/ dest_acc = NoAccount \/ source_acc = dest_acc
            THEN "TransactionValidationError"
        ELSE IF assert_account_access(accts, source_acc) # "none"
            THEN assert_account_access(accts, source_acc)
        ELSE assert_account_access(accts, dest_acc)
    ELSE IF source_acc # NoAccount /\ dest_acc # NoAccount THEN
        IF assert_account_access(accts, source_acc) # "none"
            THEN assert_account_access(accts, source_acc)
        ELSE assert_account_access(accts, dest_acc)
    ELSE "none"

_assert_ownership(accts, account_id) ==
    IF account_id # NoAccount THEN assert_account_access(accts, account_id) ELSE "none"

\* The INSERT ... SELECT of create_transaction inserts a row only when its WHERE
\* finds the accounts; the CASE columns keep the ids the type uses.
InsertSelects(accts, transaction_type, account_id, source_acc, dest_acc) ==
    \/ /\ transaction_type \in {"income", "expense", "debt_borrowed", "debt_repaid"}
       /\ get_account(accts, account_id)
    \/ /\ transaction_type \in {"transfer", "investment_deposit", "investment_withdraw"}
       /\ get_account(accts, source_acc)
       /\ get_account(accts, dest_acc)
       /\ source_acc # dest_acc

InsertedRow(id, transaction_type, amount, account_id, source_acc, dest_acc) ==
    LET single == transaction_type \in {"income", "expense", "debt_borrowed", "debt_repaid"} IN
    [transaction_id |-> id, transaction_type |-> transaction_type, amount |-> amount,
     account_id |-> IF single THEN account_id ELSE NoAccount,
     source_account_id |-> IF single THEN NoAccount ELSE source_acc,
     destination_account_id |-> IF single THEN NoAccount ELSE dest_acc,
     is_deleted |-> FALSE]

\* create_transaction.  fail 1, 2: an UPDATE accounts of the balance change raises;
\* fail 3: the DELETE that takes the row back raises.
\* Returns the tables, the exception and the id of the row that was inserted.
create_transaction(accts, txs, new_id, transaction_type, amount, account_id, source_acc, dest_acc, allow_overdraft, fail) ==
    LET v == _validate_transaction_accounts(accts, transaction_type, account_id, source_acc, dest_acc)
        o == _assert_ownership(accts, account_id)
        none == [accounts |-> accts, transactions |-> txs, exc |-> "none", transaction_id |-> 0, inserted |-> FALSE]
    IN
    IF v # "none" THEN [none EXCEPT !.exc = v]
    ELSE IF o # "none" THEN [none EXCEPT !.exc = o]
    ELSE IF ~InsertSelects(accts, transaction_type, account_id, source_acc, dest_acc)
        THEN [none EXCEPT !.exc = "TransactionError"]
    ELSE
    LET row == InsertedRow(new_id, transaction_type, amount, account_id, source_acc, dest_acc)
        b == apply_transaction_change(accts, transaction_type, amount, account_id, source_acc, dest_acc, allow_overdraft, fail)
    IN
    IF b.exc # "none" THEN
        IF fail = 3
        THEN [accounts |-> b.accounts, transactions |-> txs \cup {row}, exc |-> "DatabaseError", transaction_id |-> 0, inserted |-> TRUE]
        ELSE [accounts |-> b.accounts, transactions |-> txs, exc |-> "TransactionValidationError", transaction_id |-> 0, inserted |-> TRUE]
    ELSE [accounts |-> b.accounts, transactions |-> txs \cup {row}, exc |-> "none", transaction_id |-> new_id, inserted |-> TRUE]

\* The points between two committed statements of create_transaction at which
\* the process can die: after the INSERT of the row and before the first UPDATE
\* accounts, and after the last UPDATE accounts the balance change commits and
\* before the DELETE or the audit INSERT that follows.
CrashPoints == {"crash_after_insert", "crash_after_update"}

\* create_transaction_crash with the INSERT and the balance change in one
\* database transaction, which the store rolls back when the connection is lost.
create_transaction_crash_atomic(accts, txs, new_id, transaction_type, amount, account_id, source_acc, dest_acc, allow_overdraft, crash) ==
    [accounts |-> accts, transactions |-> txs,
     reached |-> /\ _validate_transaction_accounts(accts, transaction_type, account_id, source_acc, dest_acc) = "none"
                 /\ _assert_ownership(accts, account_id) = "none"
                 /\ InsertSelects(accts, transaction_type, account_id, source_acc, dest_acc)
                 /\ crash = "crash_after_insert"]

\* The tables as create_transaction leaves them when the process dies at the
\* point crash: every statement _execute has run is committed, nothing after it
\* is run.  reached: the call gets as far as the point.
create_transaction_crash(accts, txs, new_id, transaction_type, amount, account_id, source_acc, dest_acc, allow_overdraft, crash) ==
    LET v == _validate_transaction_accounts(accts, transaction_type, account_id, source_acc, dest_acc)
        o == _assert_ownership(accts, account_id)
        row == InsertedRow(new_id, transaction_type, amount, account_id, source_acc, dest_acc)
        b == apply_transaction_change(accts, transaction_type, amount, account_id, source_acc, dest_acc, allow_overdraft, 0)
    IN
    IF v # "none" \/ o # "none"
       \/ ~InsertSelects(accts, transaction_type, account_id, source_acc, dest_acc)
        THEN [accounts |-> accts, transactions |-> txs, reached |-> FALSE]
    ELSE IF crash = "crash_after_insert"
        THEN [accounts |-> accts, transactions |-> txs \cup {row}, reached |-> TRUE]
    ELSE [accounts |-> b.accounts, transactions |-> txs \cup {row},
          reached |-> b.accounts # accts]

\* delete_transaction reads `user_id` before the assignment that makes it a local.
delete_transaction(txs, transaction_id) ==
    IF ~\E tx \in txs : tx.transaction_id = transaction_id
        THEN "TransactionNotFoundError"
    ELSE "UnboundLocalError"

\* ------------------------------------------------------ datetime, timedelta
\* A datetime is [year, month, day, tod]; tod is the time of day in seconds.
\* NoDate is Python's None where a datetime is optional.
NoDate == [year |-> 0, month |-> 0, day |-> 0, tod |-> 0]

IsLeap(year) == (year % 4 = 0 /\ year % 100 # 0) \/ year % 400 = 0

DaysInMonth(year, month) ==
    IF month = 2 THEN (IF IsLeap(year) THEN 29 ELSE 28)
    ELSE IF month \in {4, 6, 9, 11} THEN 30
    ELSE 31

\* d + timedelta(days=1) and d - timedelta(days=1)
NextDay(d) ==
    IF d.day < DaysInMonth(d.year, d.month) THEN [d EXCEPT !.day = d.day + 1]
    ELSE IF d.month < 12 THEN [d EXCEPT !.month = d.month + 1, !.day = 1]
    ELSE [d EXCEPT !.year = d.year + 1, !.month = 1, !.day = 1]

PrevDay(d) ==
    IF d.day > 1 THEN [d EXCEPT !.day = d.day - 1]
    ELSE IF d.month > 1
        THEN [d EXCEPT !.month = d.month - 1, !.day = DaysInMonth(d.year, d.month - 1)]
    ELSE [d EXCEPT !.year = d.year - 1, !.month = 12, !.day = 31]

\* d + timedelta(days=n), n of either sign: forward within the month, or on
\* from the first day of the next month; backward a day at a time.
RECURSIVE AddDays(_, _)
AddDays(d, n) ==
    IF n = 0 THEN d
    ELSE IF n > 0 THEN
        LET left == DaysInMonth(d.year, d.month) - d.day IN
        IF n <= left THEN [d EXCEPT !.day = d.day + n]
        ELSE AddDays(NextDay([d EXCEPT !.day = d.day + left]), n - left - 1)
    ELSE AddDays(PrevDay(d), n + 1)

\* a < b and a <= b on datetimes
DateLT(a, b) ==
    \/ a.year < b.year
    \/ a.year = b.year /\ a.month < b.month
    \/ a.year = b.year /\ a.month = b.month /\ a.day < b.day
    \/ a.year = b.year /\ a.month = b.month /\ a.day = b.day /\ a.tod < b.tod
DateLE(a, b) == a = b \/ DateLT(a, b)

\* datetime.date(): the calendar day
DateOf(d) == [d EXCEPT !.tod = 0]

\* ---------------------------------------------------------- RecurringModel
\* _add_months with the day of src kept as it is, whatever the month.
_add_months_uncapped(src, months) ==
    IF months <= 0 THEN src
    ELSE
    LET total == src.month - 1 + months
    IN [year |-> src.year + (total \div 12), month |-> (total % 12) + 1,
        day |-> src.day, tod |-> src.tod]

_add_months(src, months) ==
    IF months <= 0 THEN src
    ELSE
    LET total == src.month - 1 + months
        year == src.year + (total \div 12)
        month == (total % 12) + 1
        next_month == IF month = 12 THEN 1 ELSE month + 1
        next_month_year == IF month = 12 THEN year + 1 ELSE year
        last_day_of_month ==
            PrevDay([year |-> next_month_year, month |-> next_month, day |-> 1, tod |-> 0]).day
        day == IF src.day < last_day_of_month THEN src.day ELSE last_day_of_month
    IN [year |-> year, month |-> month, day |-> day, tod |-> src.tod]

\* _calculate_next_due with a week of one day and a year of one month.
_calculate_next_due_short(frequency, interval, last_due) ==
    IF frequency \in {"daily", "weekly"}
        THEN [date |-> AddDays(last_due, interval), exc |-> "none"]
    ELSE IF frequency \in {"monthly", "yearly"}
        THEN [date |-> _add_months(last_due, interval), exc |-> "none"]
    ELSE [date |-> NoDate, exc |-> "RecurringValidationError"]

\* _calculate_next_due taking a frequency it does not know for a daily one.
_calculate_next_due_lenient(frequency, interval, last_due) ==
    IF frequency = "weekly" THEN [date |-> AddDays(last_due, 7 * interval), exc |-> "none"]
    ELSE IF frequency = "monthly" THEN [date |-> _add_months(last_due, interval), exc |-> "none"]
    ELSE IF frequency = "yearly" THEN [date |-> _add_months(last_due, 12 * interval), exc |-> "none"]
    ELSE [date |-> AddDays(last_due, interval), exc |-> "none"]

\* Returns the datetime (NoDate when it raises), and the exception raised for a
\* frequency it does not know.
_calculate_next_due(frequency, interval, last_due) ==
    IF frequency = "daily" THEN [date |-> AddDays(last_due, interval), exc |-> "none"]
    ELSE IF frequency = "weekly" THEN [date |-> AddDays(last_due, 7 * interval), exc |-> "none"]
    ELSE IF frequency = "monthly" THEN [date |-> _add_months(last_due, interval), exc |-> "none"]
    ELSE IF frequency = "yearly" THEN [date |-> _add_months(last_due, 12 * interval), exc |-> "none"]
    ELSE [date |-> NoDate, exc |-> "RecurringValidationError"]

\* None for override_amount.
NoOverride == -1

\* The fields update() passes on to _update_safe_fields; it drops every other
\* keyword that is not a SENSITIVE one (last_run_status is in neither list).
SAFE ==
    {"is_global", "name", "description", "frequency", "interval_value", "next_due",
     "last_run", "max_missed_runs", "pause_until", "skip_next", "override_amount",
     "amount", "transaction_type", "payment_method", "notes", "is_active",
     "is_deleted", "created_at"}

\* get_recurring: the rule exists, is the caller's and is not deleted.
get_recurring(rules, recurring_id) ==
    recurring_id \in DOMAIN rules /\ ~rules[recurring_id].is_deleted

\* _update_safe_fields with an UPDATE that has no WHERE on recurring_id.
_update_safe_fields_every_rule(rules, recurring_id, safe, store_fails) ==
    IF store_fails THEN [recurring |-> rules, exc |-> "RecurringDatabaseError"]
    ELSE IF recurring_id \notin DOMAIN rules
        THEN [recurring |-> rules, exc |-> "RecurringNotFoundError"]
    ELSE IF \A r \in DOMAIN rules : \A f \in DOMAIN safe : rules[r][f] = safe[f]
        THEN [recurring |-> rules, exc |-> "RecurringNotFoundError"]
    ELSE [recurring |-> [r \in DOMAIN rules |->
                            [f \in DOMAIN rules[r] |->
                                IF f \in DOMAIN safe THEN safe[f] ELSE rules[r][f]]],
          exc |-> "none"]

\* _update_safe_fields: UPDATE recurring_transactions SET ... ; rowcount 0 raises.
\* store_fails: the UPDATE raises mysql.connector.Error.
_update_safe_fields(rules, recurring_id, safe, store_fails) ==
    IF store_fails THEN [recurring |-> rules, exc |-> "RecurringDatabaseError"]
    ELSE IF recurring_id \notin DOMAIN rules
        THEN [recurring |-> rules, exc |-> "RecurringNotFoundError"]
    ELSE IF \A f \in DOMAIN safe : rules[recurring_id][f] = safe[f]
        THEN [recurring |-> rules, exc |-> "RecurringNotFoundError"]
    ELSE [recurring |-> [rules EXCEPT ![recurring_id] =
                            [f \in DOMAIN @ |-> IF f \in DOMAIN safe THEN safe[f] ELSE @[f]]],
          exc |-> "none"]

\* update(recurring_id, **updates), called with no SENSITIVE field.
update(rules, recurring_id, updates, store_fails) ==
    LET safe_fields == [f \in (DOMAIN updates) \cap SAFE |-> updates[f]]
        u == IF DOMAIN safe_fields # {}
             THEN _update_safe_fields(rules, recurring_id, safe_fields, store_fails)
             ELSE [recurring |-> rules, exc |-> "none"]
    IN
    IF u.exc # "none" THEN u
    ELSE IF ~get_recurring(u.recurring, recurring_id)
        THEN [recurring |-> u.recurring, exc |-> "RecurringNotFoundError"]
    ELSE u

\* preview_next_run that takes the one-shot flags of the rule, as a run would.
preview_next_run_consuming(rules, recurring_id) ==
    IF recurring_id \notin DOMAIN rules
    THEN [recurring |-> rules, exc |-> "ValueError", result |-> <<>>]
    ELSE [recurring |-> [rules EXCEPT ![recurring_id].skip_next = 0,
                                      ![recurring_id].override_amount = NoOverride],
          exc |-> "none",
          result |-> [recurring_id |-> recurring_id,
                      frequency |-> rules[recurring_id].frequency,
                      amount |-> rules[recurring_id].amount,
                      last_run |-> rules[recurring_id].last_run,
                      next_due |-> rules[recurring_id].next_due,
                      preview_status |-> rules[recurring_id].last_run_status]]

\* preview_next_run: one SELECT by recurring_id and owner (deleted rules
\* included); ValueError when there is no row, else the columns of the row.
preview_next_run(rules, recurring_id) ==
    IF recurring_id \notin DOMAIN rules
    THEN [recurring |-> rules, exc |-> "ValueError", result |-> <<>>]
    ELSE [recurring |-> rules, exc |-> "none",
          result |-> [recurring_id |-> recurring_id,
                      frequency |-> rules[recurring_id].frequency,
                      amount |-> rules[recurring_id].amount,
                      last_run |-> rules[recurring_id].last_run,
                      next_due |-> rules[recurring_id].next_due,
                      preview_status |-> rules[recurring_id].last_run_status]]

\* _record_history keeping one record a rule: the rule's earlier records go.
\* _record_history for a runner that writes every record twice.
_record_history_twice(logs, recurring_id, run_date, amount_used, status, override_used, posted_transaction_id, message, store_fails) ==
    IF store_fails THEN logs
    ELSE logs \o [i \in 1..2 |->
                    [recurring_id |-> recurring_id, run_date |-> run_date,
                     amount_used |-> amount_used, status |-> status,
                     override_used |-> override_used,
                     posted_transaction_id |-> posted_transaction_id,
                     message |-> message]]

_record_history_latest_only(logs, recurring_id, run_date, amount_used, status, override_used, posted_transaction_id, message, store_fails) ==
    IF store_fails THEN logs
    ELSE Append(SelectSeq(logs, LAMBDA h : h.recurring_id # recurring_id),
                [recurring_id |-> recurring_id, run_date |-> run_date,
                 amount_used |-> amount_used, status |-> status,
                 override_used |-> override_used,
                 posted_transaction_id |-> posted_transaction_id,
                 message |-> message])

\* _record_history: INSERT INTO recurring_logs; a RecurringDatabaseError is swallowed.
\* store_fails: the INSERT raises mysql.connector.Error.
_record_history(logs, recurring_id, run_date, amount_used, status, override_used, posted_transaction_id, message, store_fails) ==
    IF store_fails THEN logs
    ELSE Append(logs, [recurring_id |-> recurring_id, run_date |-> run_date,
                       amount_used |-> amount_used, status |-> status,
                       override_used |-> override_used,
                       posted_transaction_id |-> posted_transaction_id,
                       message |-> message])

\* The statements of one pass of run_due's loop that the store can refuse.
StoreFailures ==
    {"none", "accounts_first", "accounts_second", "transactions_delete",
     "recurring_logs", "recurring_transactions"}

\* The `fail` of create_transaction for a store failure.
CreateFail(store_failure) ==
    CASE store_failure = "accounts_first" -> 1
      [] store_failure = "accounts_second" -> 2
      [] store_failure = "transactions_delete" -> 3
      [] OTHER -> 0

\* What one pass of the loop leaves behind.
Pass(accts, txs, new_id, rules, logs, created, exc, path) ==
    [accounts |-> accts, transactions |-> txs, next_tx_id |-> new_id,
     recurring |-> rules, recurring_logs |-> logs,
     created |-> created, exc |-> exc, path |-> path]

\* run_due_except with the failed record left out: the handler only marks the rule.
run_due_except_silent(accts, txs, new_id, rules, logs, clock, row, created, exc, store_failure) ==
    LET u == update(rules, row.recurring_id, [last_run_status |-> "failed"],
                    store_failure = "recurring_transactions")
    IN Pass(accts, txs, new_id, u.recurring, logs, created, exc, "failed")

\* run_due_except that also clears the rule's override_amount.
run_due_except_clearing(accts, txs, new_id, rules, logs, clock, row, created, exc, store_failure) ==
    LET h == _record_history(logs, row.recurring_id, clock, row.amount, "failed", FALSE,
                             0, exc, store_failure = "recurring_logs")
        u == update(rules, row.recurring_id, [override_amount |-> NoOverride],
                    store_failure = "recurring_transactions")
    IN Pass(accts, txs, new_id, u.recurring, h, created, exc, "failed")

\* run_due_except that also moves the rule on to its next occurrence.
run_due_except_advancing(accts, txs, new_id, rules, logs, clock, row, created, exc, store_failure) ==
    LET h == _record_history(logs, row.recurring_id, clock, row.amount, "failed", FALSE,
                             0, exc, store_failure = "recurring_logs")
        u == update(rules, row.recurring_id,
                    [next_due |-> _calculate_next_due(row.frequency, row.interval_value, row.next_due).date],
                    store_failure = "recurring_transactions")
    IN Pass(accts, txs, new_id, u.recurring, h, created, exc, "failed")

\* The except branch of the loop: a failed record with the row's own amount,
\* then update(last_run_status="failed"), whose exceptions are passed over.
run_due_except(accts, txs, new_id, rules, logs, clock, row, created, exc, store_failure) ==
    LET h == _record_history(logs, row.recurring_id, clock, row.amount, "failed", FALSE,
                             0, exc, store_failure = "recurring_logs")
        u == update(rules, row.recurring_id, [last_run_status |-> "failed"],
                    store_failure = "recurring_transactions")
    IN Pass(accts, txs, new_id, u.recurring, h, created, exc, "failed")

\* The test of run_due's first branch: pause_until is set and its day is after
\* today's.
Paused_never(rec, clock) == FALSE
Paused(rec, clock) ==
    rec.pause_until # NoDate /\ DateLT(DateOf(clock), DateOf(rec.pause_until))

\* The body of run_due's loop for one selected row.  rec is built from the row
\* the SELECT returned; the tables are read and written as they are now.
run_due_row(accts, txs, new_id, rules, logs, clock, row, store_failure) ==
    LET rec == row
        used == IF rec.override_amount # NoOverride THEN rec.override_amount ELSE rec.amount
    IN
    IF Paused(rec, clock) THEN
        \* bool(rec.override_used): the dataclass has no such attribute
        run_due_except(accts, txs, new_id, rules, logs, clock, row, <<>>,
                       "AttributeError", store_failure)
    ELSE IF rec.skip_next = 1 THEN
        LET u == update(rules, rec.recurring_id,
                        [skip_next |-> 0, last_run_status |-> "skipped"],
                        store_failure = "recurring_transactions")
        IN
        IF u.exc # "none"
        THEN run_due_except(accts, txs, new_id, u.recurring, logs, clock, row, <<>>,
                            u.exc, store_failure)
        ELSE Pass(accts, txs, new_id, u.recurring,
                  _record_history(logs, rec.recurring_id, clock, used, "skipped",
                                  rec.override_amount # NoOverride /\ rec.override_amount # 0,
                                  0, "skip_next flag consumed.",
                                  store_failure = "recurring_logs"),
                  <<>>, "none", "skipped")
    ELSE
        LET override_used == rec.override_amount # NoOverride
            amount_to_use == used
            c == create_transaction(accts, txs, new_id, rec.transaction_type, amount_to_use,
                                    rec.account_id, rec.source_account_id,
                                    rec.destination_account_id, FALSE,
                                    CreateFail(store_failure))
            after_id == IF c.inserted THEN new_id + 1 ELSE new_id
        IN
        IF c.exc # "none"
        THEN run_due_except(c.accounts, c.transactions, after_id, rules, logs, clock, row,
                            <<>>, c.exc, store_failure)
        ELSE
        LET created == <<c.transaction_id>>
            new_next == _calculate_next_due(rec.frequency, rec.interval_value, rec.next_due)
        IN
        IF new_next.exc # "none"
        THEN run_due_except(c.accounts, c.transactions, after_id, rules, logs, clock, row,
                            created, new_next.exc, store_failure)
        ELSE
        LET u == update(rules, rec.recurring_id,
                        [last_run |-> clock, last_run_status |-> "success",
                         next_due |-> new_next.date, override_amount |-> NoOverride],
                        store_failure = "recurring_transactions")
        IN
        IF u.exc # "none"
        THEN run_due_except(c.accounts, c.transactions, after_id, u.recurring, logs, clock,
                            row, created, u.exc, store_failure)
        ELSE Pass(c.accounts, c.transactions, after_id, u.recurring,
                  _record_history(logs, rec.recurring_id, clock, amount_to_use, "generated",
                                  override_used, c.transaction_id,
                                  "Auto-generated by recurring runner.",
                                  store_failure = "recurring_logs"),
                  created, "none", "generated")

\* The store failures a pass over the row can meet: the posting statements are
\* reached only by a rule that is neither paused nor skipped, the second UPDATE
\* accounts only by a transfer.
ReachableFailures(row, clock) ==
    IF Paused(row, clock) \/ row.skip_next = 1
    THEN {"none", "recurring_logs", "recurring_transactions"}
    ELSE IF row.transaction_type \in {"income", "expense", "debt_borrowed", "debt_repaid"}
    THEN StoreFailures \ {"accounts_second"}
    ELSE StoreFailures

\* The WHERE clause of run_due's SELECT with the state of the rule left out.
Due_whatever_state(rule, clock) == DateLE(rule.next_due, clock)

\* The WHERE clause of run_due's SELECT: is_deleted = 0 AND is_active = 1 AND
\* next_due <= NOW().
Due(rule, clock) ==
    /\ ~rule.is_deleted
    /\ rule.is_active
    /\ DateLE(rule.next_due, clock)

\* The rows run_due's SELECT returns, in recurring_id order.
RECURSIVE DueRows(_, _, _)
DueRows(rules, clock, from) ==
    IF \A r \in DOMAIN rules : r < from THEN <<>>
    ELSE LET rest == DueRows(rules, clock, from + 1) IN
         IF from \in DOMAIN rules /\ Due(rules[from], clock)
         THEN <<rules[from]>> \o rest
         ELSE rest

\* ------------------------------------------------------------------ state
\* The `source` callers pass to reverse_transaction_change: f"REVERSED_{type}".
ReversedSource(transaction_type) ==
    CASE transaction_type = "income" -> "REVERSED_income"
      [] transaction_type = "debt_borrowed" -> "REVERSED_debt_borrowed"
      [] transaction_type = "expense" -> "REVERSED_expense"
      [] transaction_type = "debt_repaid" -> "REVERSED_debt_repaid"
      [] transaction_type = "transfer" -> "REVERSED_transfer"
      [] transaction_type = "investment_deposit" -> "REVERSED_investment_deposit"
      [] OTHER -> "REVERSED_investment_withdraw"

SingleAccountTypes == credited_trans_types \cup debited_trans_types
AccountArgs == AccountIds \cup {NoAccount}

\* The account arguments a caller passes for a type: <<account, source, destination>>.
Targets(transaction_type) ==
    IF transaction_type \in SingleAccountTypes
    THEN {<<a, NoAccount, NoAccount>> : a \in AccountArgs}
    ELSE {<<NoAccount, sd[1], sd[2]>> : sd \in AccountArgs \X AccountArgs}

\* The UPDATE accounts statements a balance change of the type can reach.
FailPoints(transaction_type) ==
    IF transaction_type \in SingleAccountTypes THEN 0..1 ELSE 0..2

Call(op, transaction_type, amount, target, allow_overdraft, exc, before) ==
    [op |-> op, transaction_type |-> transaction_type, amount |-> amount,
     account_id |-> target[1], source_account_id |-> target[2],
     destination_account_id |-> target[3], allow_overdraft |-> allow_overdraft,
     exc |-> exc, before |-> before,
     difference |-> 0, transactions_processed |-> 0, transaction_id |-> 0,
     recurring_id |-> 0, store_failed |-> FALSE]

NoTarget == <<NoAccount, NoAccount, NoAccount>>

RecurringIds == 1..NumRules

\* The clock at the start, and the last day it reaches.
StartDate == [year |-> 2024, month |-> 1, day |-> 31, tod |-> 0]
Horizon == AddDays(StartDate, MaxTicks)

\* The row RecurringModel.create inserts: the columns it does not name take
\* their defaults.
Rule(recurring_id, transaction_type, amount, target, next_due) ==
    [recurring_id |-> recurring_id, frequency |-> "monthly", interval_value |-> 1,
     next_due |-> next_due, last_run |-> NoDate, last_run_status |-> "success",
     pause_until |-> NoDate, skip_next |-> 0, override_amount |-> NoOverride,
     amount |-> amount, transaction_type |-> transaction_type,
     account_id |-> target[1], source_account_id |-> target[2],
     destination_account_id |-> target[3],
     is_active |-> TRUE, is_deleted |-> FALSE]

\* The rules the caller has created: an expense, an income or a transfer each.
RuleTemplates ==
    {<<"expense", <<1, NoAccount, NoAccount>>>>,
     <<"income", <<NumAccounts, NoAccount, NoAccount>>>>,
     <<"transfer", <<NoAccount, 1, NumAccounts>>>>}

NoRun ==
    [active |-> FALSE, returned |-> FALSE, rows |-> <<>>, idx |-> 1,
     created_ids |-> <<>>, outcomes |-> <<>>, logs_at_start |-> 0, first_tx_id |-> 1,
     refused |-> 0]

NoEval ==
    [recurring_id |-> 0, rec |-> Rule(0, "", 0, NoTarget, NoDate), exc |-> "none",
     path |-> "", store_failure |-> "none", created |-> <<>>, logs_before |-> 0,
     balances_before |-> [a \in AccountIds |-> OpeningBalance],
     transactions_before |-> {}]

\* No call of _calculate_next_due.
NoAdvance ==
    [called |-> FALSE, frequency |-> "", interval |-> 0, last_due |-> NoDate,
     result |-> NoDate, exc |-> "none"]

\* No second invocation.
NoOverlap == [active |-> FALSE, returned |-> FALSE, rows |-> <<>>, idx |-> 1, outcomes |-> <<>>]

\* The two connections whose calls of apply_transaction_change overlap: the
\* thread of the background scheduler and the thread of the user, or two
\* processes on the same database.
Connections == {1, 2}

\* A call of apply_transaction_change on one connection: the statement it is
\* at, its arguments, the balance its SELECT read, whether its UPDATE was
\* committed and the exception it ended with.
NoCall ==
    [pc |-> "idle", transaction_type |-> "", amount |-> 0, account_id |-> NoAccount,
     allow_overdraft |-> FALSE, old_balance |-> 0, wrote |-> FALSE, exc |-> "none"]
NoInflight == [c \in Connections |-> NoCall]

InitLedger ==
    /\ accounts = [a \in AccountIds |->
                     [balance |-> OpeningBalance, opening_balance |-> OpeningBalance,
                      source |-> "", is_active |-> TRUE]]
    /\ transactions = {}
    /\ next_tx_id = 1
    /\ calls = 0
    /\ last = Call("init", "", 0, NoTarget, FALSE, "none", [a \in AccountIds |-> OpeningBalance])
    /\ recurring_logs = <<>>
    /\ now = StartDate
    /\ run = NoRun
    /\ eval = NoEval
    /\ overlapping = NoOverlap
    /\ inflight = NoInflight

\* The ledger with one expense rule per id, all due.
Init ==
    /\ InitLedger
    /\ recurring = [r \in RecurringIds |->
                      Rule(r, "expense", 1, <<1, NoAccount, NoAccount>>, StartDate)]
    /\ advance = NoAdvance

\* The ledger with a first rule of any kind, due, and expense rules after it,
\* due today or tomorrow.
InitRecurring ==
    /\ InitLedger
    /\ advance = NoAdvance
    /\ \E kind \in RuleTemplates, late \in SUBSET (RecurringIds \ {1}) :
          recurring = [r \in RecurringIds |->
                         IF r = 1 THEN Rule(r, kind[1], 1, kind[2], StartDate)
                         ELSE Rule(r, "expense", 1, <<1, NoAccount, NoAccount>>,
                                   IF r \in late THEN NextDay(StartDate) ELSE StartDate)]

\* BalanceService.apply_transaction_change, called directly.
ApplyTransactionChange ==
    /\ calls < MaxCalls
    /\ \E transaction_type \in TransactionTypes, amount \in Amounts, allow_overdraft \in BOOLEAN :
       \E target \in Targets(transaction_type), fail \in FailPoints(transaction_type) :
          LET r == apply_transaction_change(accounts, transaction_type, amount, target[1], target[2], target[3], allow_overdraft, fail) IN
          /\ accounts' = r.accounts
          /\ last' = [Call("apply", transaction_type, amount, target, allow_overdraft, r.exc, Balances(accounts))
                        EXCEPT !.store_failed = last.store_failed \/ fail # 0]
    /\ calls' = calls + 1
    /\ UNCHANGED <<transactions, next_tx_id>>
    /\ UNCHANGED recurring_vars

\* BalanceService.reverse_transaction_change, called directly with the data of a transaction.
ReverseTransactionChange ==
    /\ calls < MaxCalls
    /\ \E transaction_type \in TransactionTypes, amount \in Amounts :
       \E target \in Targets(transaction_type), fail \in FailPoints(transaction_type) :
          LET r == _reverse_transaction(accounts, ReversedSource(transaction_type), transaction_type, amount, target[1], target[2], target[3], fail) IN
          /\ accounts' = r.accounts
          /\ last' = [Call("reverse", transaction_type, amount, target, TRUE, r.exc, Balances(accounts))
                        EXCEPT !.store_failed = last.store_failed \/ fail # 0]
    /\ calls' = calls + 1
    /\ UNCHANGED <<transactions, next_tx_id>>
    /\ UNCHANGED recurring_vars

\* BalanceService.rebuild_account_balance.
RebuildAccountBalance ==
    /\ calls < MaxCalls
    /\ \E account_id \in AccountArgs, fail \in 0..1 :
          LET r == rebuild_account_balance(accounts, transactions, account_id, fail) IN
          /\ accounts' = r.accounts
          /\ last' = [Call("rebuild", "", 0, <<account_id, NoAccount, NoAccount>>, FALSE, r.exc, Balances(accounts))
                        EXCEPT !.difference = r.difference,
                               !.transactions_processed = r.transactions_processed,
                               !.store_failed = last.store_failed \/ fail # 0]
    /\ calls' = calls + 1
    /\ UNCHANGED <<transactions, next_tx_id>>
    /\ UNCHANGED recurring_vars

\* TransactionModel.create_transaction.
CreateTransaction ==
    /\ calls < MaxCalls
    /\ \E transaction_type \in TransactionTypes, amount \in Amounts, allow_overdraft \in BOOLEAN :
       \E target \in Targets(transaction_type), fail \in FailPoints(transaction_type) \cup {3} :
          LET r == create_transaction(accounts, transactions, next_tx_id, transaction_type, amount, target[1], target[2], target[3], allow_overdraft, fail) IN
          /\ accounts' = r.accounts
          /\ transactions' = r.transactions
          /\ next_tx_id' = IF r.inserted THEN next_tx_id + 1 ELSE next_tx_id
          /\ last' = [Call("create", transaction_type, amount, target, allow_overdraft, r.exc, Balances(accounts))
                        EXCEPT !.transaction_id = r.transaction_id,
                               !.store_failed = last.store_failed \/ fail # 0]
    /\ calls' = calls + 1
    /\ UNCHANGED recurring_vars

\* TransactionModel.delete_transaction.
DeleteTransaction ==
    /\ calls < MaxCalls
    /\ \E transaction_id \in 1..next_tx_id :
          last' = [Call("delete", "", 0, NoTarget, FALSE, delete_transaction(transactions, transaction_id), Balances(accounts))
                      EXCEPT !.transaction_id = transaction_id,
                             !.store_failed = last.store_failed]
    /\ calls' = calls + 1
    /\ UNCHANGED <<accounts, transactions, next_tx_id>>
    /\ UNCHANGED recurring_vars

\* The arguments of a caller that validates nothing: a type the engine does
\* not know, and the id of no account of the caller's.
AnyTransactionTypes == TransactionTypes \cup {"bonus"}
AnyAccountArgs == AccountArgs \cup {NumAccounts + 1}
AnyTargets(transaction_type) ==
    IF transaction_type \in transfer_types
    THEN {<<NoAccount, sd[1], sd[2]>> : sd \in AnyAccountArgs \X AnyAccountArgs}
    ELSE {<<a, NoAccount, NoAccount>> : a \in AnyAccountArgs}

\* The accounts, any of them active or not.
InitValidation ==
    /\ transactions = {}
    /\ next_tx_id = 1
    /\ calls = 0
    /\ last = Call("init", "", 0, NoTarget, FALSE, "none", [a \in AccountIds |-> OpeningBalance])
    /\ recurring_logs = <<>>
    /\ now = StartDate
    /\ run = NoRun
    /\ eval = NoEval
    /\ overlapping = NoOverlap
    /\ inflight = NoInflight
    /\ advance = NoAdvance
    /\ recurring = [r \in RecurringIds |->
                      Rule(r, "expense", 1, <<1, NoAccount, NoAccount>>, StartDate)]
    /\ \E inactive \in SUBSET AccountIds :
          accounts = [a \in AccountIds |->
                        [balance |-> OpeningBalance, opening_balance |-> OpeningBalance,
                         source |-> "", is_active |-> a \notin inactive]]

\* BalanceService.apply_transaction_change, called with any arguments.
ApplyAnyTransactionChange ==
    /\ calls < MaxCalls
    /\ \E transaction_type \in AnyTransactionTypes, amount \in Amounts, allow_overdraft \in BOOLEAN :
       \E target \in AnyTargets(transaction_type) :
          LET r == apply_transaction_change(accounts, transaction_type, amount, target[1], target[2], target[3], allow_overdraft, 0) IN
          /\ accounts' = r.accounts
          /\ last' = Call("apply", transaction_type, amount, target, allow_overdraft, r.exc, Balances(accounts))
    /\ calls' = calls + 1
    /\ UNCHANGED <<transactions, next_tx_id>>
    /\ UNCHANGED recurring_vars

NextValidation == ApplyAnyTransactionChange

SpecValidation == InitValidation /\ [][NextValidation]_vars

\* BalanceService.rebuild_all_balances.
RebuildAllBalances ==
    /\ calls < MaxCalls
    /\ \E order \in ListOrders(accounts), failing \in AccountIds \cup {NoAccount} :
          LET r == rebuild_all_balances(accounts, transactions, list_account(accounts, order), 1, failing, <<>>) IN
          /\ accounts' = r.accounts
          /\ last' = [Call("rebuild_all", "", 0, <<failing, NoAccount, NoAccount>>, FALSE, r.exc, Balances(accounts))
                        EXCEPT !.store_failed = last.store_failed \/ failing # NoAccount]
                      @@ [results |-> r.results, all_accounts |-> list_account(accounts, order)]
    /\ calls' = calls + 1
    /\ UNCHANGED <<transactions, next_tx_id>>
    /\ UNCHANGED recurring_vars

\* Balance changes of any kind, and rebuilds of all the accounts, some of them
\* inactive.
NextRebuildAll ==
    \/ ApplyAnyTransactionChange
    \/ RebuildAllBalances

SpecRebuildAll == InitValidation /\ [][NextRebuildAll]_vars

\* run_due's loop over the selected rows, from the i-th on, with no store failure.
RECURSIVE run_due(_, _, _, _, _, _, _, _, _)
\* The rest of the loop after the pass p over the i-th row.
run_due_after(p, clock, rows, i, created_ids) ==
    run_due(p.accounts, p.transactions, p.next_tx_id, p.recurring, p.recurring_logs,
            clock, rows, i + 1, created_ids \o p.created)

run_due(accts, txs, new_id, rules, logs, clock, rows, i, created_ids) ==
    IF i > Len(rows) THEN Pass(accts, txs, new_id, rules, logs, created_ids, "none", "")
    ELSE run_due_after(run_due_row(accts, txs, new_id, rules, logs, clock, rows[i], "none"),
                       clock, rows, i, created_ids)

\* ----------------------------------------------------------------- tenants
Users == 1..NumUsers

\* A tenant filter that lets every row through.
_tenant_filter_open(owner_id, user_id) == TRUE

\* _tenant_filter(global_view=False), and the owner_id = %s / user_id = %s the
\* other statements carry: the row is the caller's.
_tenant_filter(owner_id, user_id) == owner_id = user_id

\* The rows of the tables that the caller's statements read and write.
VisibleAccounts(store, user_id) ==
    [a \in {b \in DOMAIN store : _tenant_filter(store[b].owner_id, user_id)} |-> store[a]]
VisibleTransactions(store, user_id) ==
    {tx \in store : _tenant_filter(tx.user_id, user_id)}
VisibleRules(store, user_id) ==
    [r \in {q \in DOMAIN store : _tenant_filter(store[q].owner_id, user_id)} |-> store[r]]

\* The tables after the caller's statements: the rows they could reach as the
\* call left them, a row the call inserted with the caller as its user_id, a
\* record it appended with the caller as its owner_id, every other row as it was.
TenantWritten(store, user_id, accts, txs, new_id, rules, logs, exc, created) ==
    [accounts |-> [a \in DOMAIN store.accounts |->
                     IF a \in DOMAIN accts THEN accts[a] ELSE store.accounts[a]],
     transactions |-> (store.transactions \ VisibleTransactions(store.transactions, user_id))
                      \cup {IF "user_id" \in DOMAIN tx THEN tx ELSE tx @@ [user_id |-> user_id]
                             : tx \in txs},
     next_tx_id |-> new_id,
     recurring |-> [r \in DOMAIN store.recurring |->
                      IF r \in DOMAIN rules THEN rules[r] ELSE store.recurring[r]],
     recurring_logs |-> [i \in 1..Len(logs) |->
                           IF i <= Len(store.recurring_logs) THEN store.recurring_logs[i]
                           ELSE logs[i] @@ [owner_id |-> user_id]],
     exc |-> exc, created |-> created]

\* One call by user_id on the tables of all the users.
\* What a call of the balance engine, a posting and a run_due leave in them.
TenantBalanceWritten(store, user_id, r) ==
    TenantWritten(store, user_id, r.accounts,
                  VisibleTransactions(store.transactions, user_id), store.next_tx_id,
                  VisibleRules(store.recurring, user_id), store.recurring_logs, r.exc, <<>>)
TenantCreateWritten(store, user_id, r) ==
    TenantWritten(store, user_id, r.accounts, r.transactions,
                  IF r.inserted THEN store.next_tx_id + 1 ELSE store.next_tx_id,
                  VisibleRules(store.recurring, user_id), store.recurring_logs, r.exc, <<>>)
TenantRunDueWritten(store, user_id, r) ==
    TenantWritten(store, user_id, r.accounts, r.transactions, r.next_tx_id,
                  r.recurring, r.recurring_logs, r.exc, r.created)

\* One call by user_id on the tables of all the users.
TenantCall(store, user_id, call, clock) ==
    CASE call.op = "apply" ->
            TenantBalanceWritten(store, user_id,
                apply_transaction_change(VisibleAccounts(store.accounts, user_id),
                    call.transaction_type, call.amount, call.account_id,
                    call.source_account_id, call.destination_account_id,
                    call.allow_overdraft, 0))
      [] call.op = "reverse" ->
            TenantBalanceWritten(store, user_id,
                _reverse_transaction(VisibleAccounts(store.accounts, user_id),
                    ReversedSource(call.transaction_type), call.transaction_type,
                    call.amount, call.account_id, call.source_account_id,
                    call.destination_account_id, 0))
      [] call.op = "rebuild" ->
            TenantBalanceWritten(store, user_id,
                rebuild_account_balance(VisibleAccounts(store.accounts, user_id),
                    VisibleTransactions(store.transactions, user_id), call.account_id, 0))
      [] call.op = "create" ->
            TenantCreateWritten(store, user_id,
                create_transaction(VisibleAccounts(store.accounts, user_id),
                    VisibleTransactions(store.transactions, user_id), store.next_tx_id,
                    call.transaction_type, call.amount, call.account_id,
                    call.source_account_id, call.destination_account_id,
                    call.allow_overdraft, call.fail))
      [] call.op = "run_due" ->
            TenantRunDueWritten(store, user_id,
                run_due(VisibleAccounts(store.accounts, user_id),
                    VisibleTransactions(store.transactions, user_id), store.next_tx_id,
                    VisibleRules(store.recurring, user_id), store.recurring_logs, clock,
                    DueRows(VisibleRules(store.recurring, user_id), clock, 1), 1, <<>>))

\* The tables of all the users.
Store ==
    [accounts |-> accounts, transactions |-> transactions, next_tx_id |-> next_tx_id,
     recurring |-> recurring, recurring_logs |-> recurring_logs]

\* Two users: account 1 and rule 1 are user 1's, the last rule is the last
\* user's and is on the last account, which is either's.
InitTenant ==
    /\ transactions = {}
    /\ next_tx_id = 1
    /\ calls = 0
    /\ recurring_logs = <<>>
    /\ now = StartDate
    /\ run = NoRun
    /\ eval = NoEval
    /\ overlapping = NoOverlap
    /\ inflight = NoInflight
    /\ advance = NoAdvance
    /\ \E owner \in Users :
          accounts = [a \in AccountIds |->
                        [balance |-> OpeningBalance, opening_balance |-> OpeningBalance,
                         source |-> "", is_active |-> TRUE,
                         owner_id |-> IF a = 1 THEN 1 ELSE owner]]
    /\ \E kind \in RuleTemplates :
          recurring = [r \in RecurringIds |->
                         IF r = 1 THEN Rule(r, kind[1], 1, kind[2], StartDate) @@ [owner_id |-> 1]
                         ELSE Rule(r, "expense", 1, <<NumAccounts, NoAccount, NoAccount>>, StartDate)
                              @@ [owner_id |-> NumUsers]]
    /\ last = [op |-> "init", user_id |-> 0, exc |-> "none", created |-> <<>>,
               call |-> [op |-> "init"], before |-> [accounts |-> <<>>]]

\* What the call of user_id leaves: r, and the note of the call.
TenantReturn(r, user_id, call) ==
    /\ calls < MaxCalls
    /\ accounts' = r.accounts
    /\ transactions' = r.transactions
    /\ next_tx_id' = r.next_tx_id
    /\ recurring' = r.recurring
    /\ recurring_logs' = r.recurring_logs
    /\ last' = [op |-> call.op, user_id |-> user_id, exc |-> r.exc, created |-> r.created,
                call |-> call, before |-> Store]
    /\ calls' = calls + 1
    /\ UNCHANGED <<now, run, eval, overlapping, advance, inflight>>

\* The call of user_id, on the tables as they are.
TenantInvoke(user_id, call) ==
    TenantReturn(TenantCall(Store, user_id, call, now), user_id, call)

\* The calls of one operation, on any account of either user.
TenantCalls(op, fails) ==
    {[op |-> op, transaction_type |-> transaction_type, amount |-> 1,
      account_id |-> target[1], source_account_id |-> target[2],
      destination_account_id |-> target[3], allow_overdraft |-> FALSE, fail |-> fail]
        : transaction_type \in {"income", "expense", "transfer"},
          target \in UNION {Targets(t) : t \in {"income", "transfer"}},
          fail \in fails}

TenantApply == \E user_id \in Users, call \in TenantCalls("apply", {0}) : TenantInvoke(user_id, call)
TenantReverse == \E user_id \in Users, call \in TenantCalls("reverse", {0}) : TenantInvoke(user_id, call)
TenantCreate == \E user_id \in Users, call \in TenantCalls("create", {0, 3}) : TenantInvoke(user_id, call)
TenantRebuild ==
    \E user_id \in Users, account_id \in AccountIds :
        TenantInvoke(user_id, [op |-> "rebuild", account_id |-> account_id])
TenantRunDue == \E user_id \in Users : TenantInvoke(user_id, [op |-> "run_due"])

\* Two users calling the engines on one store.
NextTenant ==
    \/ TenantApply
    \/ TenantReverse
    \/ TenantCreate
    \/ TenantRebuild
    \/ TenantRunDue

SpecTenant == InitTenant /\ [][NextTenant]_vars

\* The balance engine called directly.
NextBalance ==
    \/ ApplyTransactionChange
    \/ ReverseTransactionChange
    \/ RebuildAccountBalance

SpecBalance == Init /\ [][NextBalance]_vars

\* --------------------------------------------------- update_transaction
\* update_transaction(transaction_id, amount=amount): the UPDATE of the row,
\* the reversal of the old balance effect, the new balance effect and, when
\* that raises, the old effect again.  fail: the UPDATE accounts of the
\* reversal that the store refuses (0: none).
\* Returns the tables, the exception and the step that raised.
update_transaction(accts, txs, transaction_id, amount, allow_overdraft, fail) ==
    IF ~\E tx \in txs : tx.transaction_id = transaction_id /\ ~tx.is_deleted
        THEN [accounts |-> accts, transactions |-> txs,
              exc |-> "TransactionNotFoundError", step |-> "get_transaction"]
    ELSE
    LET old_trans == CHOOSE tx \in txs : tx.transaction_id = transaction_id /\ ~tx.is_deleted
        updated_trans == [old_trans EXCEPT !.amount = amount]
        updated == (txs \ {old_trans}) \cup {updated_trans}
        r == _reverse_transaction(accts, ReversedSource(old_trans.transaction_type),
                                  old_trans.transaction_type, old_trans.amount,
                                  old_trans.account_id, old_trans.source_account_id,
                                  old_trans.destination_account_id, fail)
        a == apply_transaction_change(r.accounts, updated_trans.transaction_type,
                                      updated_trans.amount, updated_trans.account_id,
                                      updated_trans.source_account_id,
                                      updated_trans.destination_account_id,
                                      allow_overdraft, 0)
        again == apply_transaction_change(a.accounts, old_trans.transaction_type,
                                          old_trans.amount, old_trans.account_id,
                                          old_trans.source_account_id,
                                          old_trans.destination_account_id, TRUE, 0)
    IN
    IF old_trans.amount = amount
        \* rowcount 0: "not found or unchanged"
        THEN [accounts |-> accts, transactions |-> txs,
              exc |-> "TransactionNotFoundError", step |-> "_update_safe_fields"]
    ELSE IF r.exc # "none"
        THEN [accounts |-> r.accounts, transactions |-> updated,
              exc |-> "TransactionValidationError", step |-> "reverse_transaction_change"]
    ELSE IF a.exc # "none"
        THEN [accounts |-> again.accounts, transactions |-> updated,
              exc |-> "TransactionValidationError", step |-> "apply_transaction_change"]
    ELSE [accounts |-> a.accounts, transactions |-> updated, exc |-> "none", step |-> "none"]

UpdateTransactionReturn(r, transaction_id, amount, allow_overdraft, fail) ==
    /\ accounts' = r.accounts
    /\ transactions' = r.transactions
    /\ last' = [Call("update", r.step, amount, NoTarget, allow_overdraft, r.exc, Balances(accounts))
                  EXCEPT !.transaction_id = transaction_id,
                         !.store_failed = last.store_failed \/ fail # 0]

\* TransactionModel.update_transaction with a new amount.
UpdateTransaction ==
    /\ calls < MaxCalls
    /\ \E transaction_id \in 1..next_tx_id, amount \in Amounts, allow_overdraft \in BOOLEAN, fail \in 0..1 :
          UpdateTransactionReturn(update_transaction(accounts, transactions, transaction_id, amount, allow_overdraft, fail), transaction_id, amount, allow_overdraft, fail)
    /\ calls' = calls + 1
    /\ UNCHANGED next_tx_id
    /\ UNCHANGED recurring_vars

\* ------------------------------------ apply_transaction_change, overlapping
\* apply_transaction_change(transaction_type, amount, account_id) begins on
\* connection c: a credit goes to _apply_credit, a debit to _apply_debit.
ApplyBegin(c) ==
    /\ inflight[c].pc = "idle"
    /\ \E transaction_type \in credited_trans_types \cup debited_trans_types, amount \in Amounts, account_id \in AccountIds, allow_overdraft \in BOOLEAN :
          inflight' = [inflight EXCEPT ![c] =
                         [NoCall EXCEPT !.pc = IF transaction_type \in debited_trans_types
                                               THEN "check" ELSE "read",
                                        !.transaction_type = transaction_type,
                                        !.amount = amount,
                                        !.account_id = account_id,
                                        !.allow_overdraft = allow_overdraft]]
    /\ UNCHANGED <<accounts, transactions, next_tx_id, calls, last, recurring, recurring_logs, now, run, eval, overlapping, advance>>

\* _apply_debit: _check_sufficient_funds reads the account and compares.
ApplyCheckFunds(c) ==
    /\ inflight[c].pc = "check"
    /\ inflight' = [inflight EXCEPT ![c] =
                      IF _check_sufficient_funds(accounts, inflight[c].account_id, inflight[c].amount, inflight[c].allow_overdraft) # "none"
                      THEN [@ EXCEPT !.pc = "done",
                                     !.exc = _check_sufficient_funds(accounts, inflight[c].account_id, inflight[c].amount, inflight[c].allow_overdraft)]
                      ELSE [@ EXCEPT !.pc = "read"]]
    /\ UNCHANGED <<accounts, transactions, next_tx_id, calls, last, recurring, recurring_logs, now, run, eval, overlapping, advance>>

\* account = self._validate_account_active(account_id);
\* old_balance = float(account["balance"])
ApplyReadBalance(c) ==
    /\ inflight[c].pc = "read"
    /\ inflight' = [inflight EXCEPT ![c] =
                      IF _validate_account_active(accounts, inflight[c].account_id) # "none"
                      THEN [@ EXCEPT !.pc = "done",
                                     !.exc = _validate_account_active(accounts, inflight[c].account_id)]
                      ELSE [@ EXCEPT !.pc = "write",
                                     !.old_balance = accounts[inflight[c].account_id].balance]]
    /\ UNCHANGED <<accounts, transactions, next_tx_id, calls, last, recurring, recurring_logs, now, run, eval, overlapping, advance>>

\* new_balance = old_balance +/- amount; update_account(balance=new_balance);
\* _log_balance_change(...)
ApplyWritten(c, u) ==
    /\ accounts' = u.accounts
    /\ inflight' = [inflight EXCEPT ![c] =
                      [@ EXCEPT !.pc = "done",
                                !.wrote = (u.exc = "none"),
                                !.exc = IF u.exc # "none" THEN u.exc ELSE _log_balance_change]]

ApplyWriteBalance(c) ==
    /\ inflight[c].pc = "write"
    /\ ApplyWritten(c, update_account(accounts, inflight[c].account_id, inflight[c].transaction_type, IF inflight[c].transaction_type \in debited_trans_types THEN inflight[c].old_balance - inflight[c].amount ELSE inflight[c].old_balance + inflight[c].amount, FALSE))
    /\ UNCHANGED <<transactions, next_tx_id, calls, last, recurring, recurring_logs, now, run, eval, overlapping, advance>>

NextConcurrent ==
    \E c \in Connections :
        \/ ApplyBegin(c)
        \/ ApplyCheckFunds(c)
        \/ ApplyReadBalance(c)
        \/ ApplyWriteBalance(c)

SpecConcurrent == Init /\ [][NextConcurrent]_vars

\* TransactionModel.create_transaction, the process dying between two of its
\* statements.
CrashCreateTransaction ==
    /\ calls < MaxCalls
    /\ \E transaction_type \in TransactionTypes, amount \in Amounts, allow_overdraft \in BOOLEAN :
       \E target \in Targets(transaction_type), crash \in CrashPoints :
          LET r == create_transaction_crash(accounts, transactions, next_tx_id, transaction_type, amount, target[1], target[2], target[3], allow_overdraft, crash) IN
          /\ r.reached
          /\ accounts' = r.accounts
          /\ transactions' = r.transactions
          /\ next_tx_id' = next_tx_id + 1
          /\ last' = [Call(crash, transaction_type, amount, target, allow_overdraft, "crash", Balances(accounts))
                        EXCEPT !.transaction_id = next_tx_id,
                               !.store_failed = last.store_failed]
    /\ calls' = calls + 1
    /\ UNCHANGED recurring_vars

\* Postings, some of which the process does not survive.
NextPostingCrash ==
    \/ CreateTransaction
    \/ CrashCreateTransaction

SpecPostingCrash == Init /\ [][NextPostingCrash]_vars

\* Postings that leave their row behind, and edits of the amount.
NextEdit ==
    \/ CrashCreateTransaction
    \/ UpdateTransaction

SpecEdit == Init /\ [][NextEdit]_vars

\* The ledger as TransactionModel and the rebuild keep it: every balance change
\* goes with a row of transactions.
NextLedger ==
    \/ CreateTransaction
    \/ DeleteTransaction
    \/ RebuildAccountBalance

SpecLedger == Init /\ [][NextLedger]_vars

\* ------------------------------------------------------ _calculate_next_due
\* The arguments of a call: the four frequencies and two the code does not
\* know, an interval of at least one, and a datetime of the years looked at,
\* at midnight or at noon.
Frequencies == {"daily", "weekly", "monthly", "yearly", "hourly", "Monthly"}
Years == 2023..(2022 + NumYears)
TimesOfDay == {0, 43200}
Datetimes ==
    {[year |-> y, month |-> m, day |-> d, tod |-> t] :
        y \in Years, m \in 1..12, d \in 1..31, t \in TimesOfDay}
ValidDatetimes == {dt \in Datetimes : dt.day <= DaysInMonth(dt.year, dt.month)}

InitAdvance ==
    /\ InitLedger
    /\ recurring = [r \in RecurringIds |->
                      Rule(r, "expense", 1, <<1, NoAccount, NoAccount>>, StartDate)]
    /\ \E frequency \in Frequencies, interval \in 1..MaxInterval, last_due \in ValidDatetimes :
          advance = [called |-> FALSE, frequency |-> frequency, interval |-> interval,
                     last_due |-> last_due, result |-> NoDate, exc |-> "none"]

\* RecurringModel._calculate_next_due(frequency, interval, last_due)
CalculateNextDue ==
    /\ ~advance.called
    /\ advance.last_due # NoDate
    /\ advance' = [advance EXCEPT
                     !.called = TRUE,
                     !.result = _calculate_next_due(advance.frequency, advance.interval, advance.last_due).date,
                     !.exc = _calculate_next_due(advance.frequency, advance.interval, advance.last_due).exc]
    /\ UNCHANGED <<accounts, transactions, next_tx_id, calls, last, recurring, recurring_logs, now, run, eval, overlapping, inflight>>

NextAdvance == CalculateNextDue

SpecAdvance == InitAdvance /\ [][NextAdvance]_vars

\* The interval_value a rule can be stored with: create and update take the
\* number as it is given, so zero and negative numbers are among them.
StoredIntervals == {-1, 0, 1}

\* The call run_due makes after a posting, with the frequency, interval_value
\* and next_due of a stored rule.
InitAdvanceStored ==
    /\ InitLedger
    /\ recurring = [r \in RecurringIds |->
                      Rule(r, "expense", 1, <<1, NoAccount, NoAccount>>, StartDate)]
    /\ \E frequency \in Frequencies, interval \in StoredIntervals, last_due \in ValidDatetimes :
          advance = [called |-> FALSE, frequency |-> frequency, interval |-> interval,
                     last_due |-> last_due, result |-> NoDate, exc |-> "none"]

SpecAdvanceStored == InitAdvanceStored /\ [][NextAdvance]_vars

\* ---------------------------------------------------------------- Scheduler
\* Scheduler wraps a RecurringError of RecurringModel.update in SchedulerError.
SchedulerRaises(exc) == IF exc = "none" THEN "none" ELSE "SchedulerError"

\* Scheduler.skip_next_occurrence
SkipNextOccurrence ==
    /\ ~run.active
    /\ calls < MaxSchedulerCalls
    /\ \E recurring_id \in RecurringIds :
          LET u == update(recurring, recurring_id, [skip_next |-> 1], FALSE) IN
          /\ recurring' = u.recurring
          /\ last' = [Call("skip_next_occurrence", "", 0, NoTarget, FALSE,
                           SchedulerRaises(u.exc), Balances(accounts))
                        EXCEPT !.recurring_id = recurring_id]
    /\ calls' = calls + 1
    /\ UNCHANGED <<accounts, transactions, next_tx_id, recurring_logs, now, run, eval, overlapping, advance, inflight>>

\* Scheduler.set_one_time_override
SetOneTimeOverride ==
    /\ ~run.active
    /\ calls < MaxSchedulerCalls
    /\ \E recurring_id \in RecurringIds, override_amount \in Amounts :
          LET u == update(recurring, recurring_id, [override_amount |-> override_amount],
                          FALSE) IN
          /\ recurring' = u.recurring
          /\ last' = [Call("set_one_time_override", "", override_amount, NoTarget, FALSE,
                           SchedulerRaises(u.exc), Balances(accounts))
                        EXCEPT !.recurring_id = recurring_id]
    /\ calls' = calls + 1
    /\ UNCHANGED <<accounts, transactions, next_tx_id, recurring_logs, now, run, eval, overlapping, advance, inflight>>

\* The dates a caller pauses a rule until: today's, and the next day's.
PauseDates == {StartDate, Horizon}

\* Scheduler.pause_recurring
PauseRecurring ==
    /\ ~run.active
    /\ calls < MaxSchedulerCalls
    /\ \E recurring_id \in RecurringIds, pause_until \in PauseDates :
          LET u == update(recurring, recurring_id, [pause_until |-> pause_until, is_active |-> FALSE], FALSE) IN
          /\ recurring' = u.recurring
          /\ last' = [Call("pause_recurring", "", 0, NoTarget, FALSE,
                           SchedulerRaises(u.exc), Balances(accounts))
                        EXCEPT !.recurring_id = recurring_id]
    /\ calls' = calls + 1
    /\ UNCHANGED <<accounts, transactions, next_tx_id, recurring_logs, now, run, eval, overlapping, advance, inflight>>

\* Scheduler.resume_recurring
ResumeRecurring ==
    /\ ~run.active
    /\ calls < MaxSchedulerCalls
    /\ \E recurring_id \in RecurringIds :
          LET u == update(recurring, recurring_id, [pause_until |-> NoDate, is_active |-> TRUE], FALSE) IN
          /\ recurring' = u.recurring
          /\ last' = [Call("resume_recurring", "", 0, NoTarget, FALSE,
                           SchedulerRaises(u.exc), Balances(accounts))
                        EXCEPT !.recurring_id = recurring_id]
    /\ calls' = calls + 1
    /\ UNCHANGED <<accounts, transactions, next_tx_id, recurring_logs, now, run, eval, overlapping, advance, inflight>>

\* Scheduler.deactivate_recurring
DeactivateRecurring ==
    /\ ~run.active
    /\ calls < MaxSchedulerCalls
    /\ \E recurring_id \in RecurringIds :
          LET u == update(recurring, recurring_id, [is_active |-> FALSE], FALSE) IN
          /\ recurring' = u.recurring
          /\ last' = [Call("deactivate_recurring", "", 0, NoTarget, FALSE,
                           SchedulerRaises(u.exc), Balances(accounts))
                        EXCEPT !.recurring_id = recurring_id]
    /\ calls' = calls + 1
    /\ UNCHANGED <<accounts, transactions, next_tx_id, recurring_logs, now, run, eval, overlapping, advance, inflight>>

\* Scheduler.activate_recurring
ActivateRecurring ==
    /\ ~run.active
    /\ calls < MaxSchedulerCalls
    /\ \E recurring_id \in RecurringIds :
          LET u == update(recurring, recurring_id, [is_active |-> TRUE], FALSE) IN
          /\ recurring' = u.recurring
          /\ last' = [Call("activate_recurring", "", 0, NoTarget, FALSE,
                           SchedulerRaises(u.exc), Balances(accounts))
                        EXCEPT !.recurring_id = recurring_id]
    /\ calls' = calls + 1
    /\ UNCHANGED <<accounts, transactions, next_tx_id, recurring_logs, now, run, eval, overlapping, advance, inflight>>

\* Scheduler.preview_next_run, of a rule or of an id no rule has: it passes the
\* ValueError on as it is.
PreviewNextRun ==
    /\ ~run.active
    /\ calls < MaxSchedulerCalls
    /\ \E recurring_id \in RecurringIds \cup {NumRules + 1} :
          LET r == preview_next_run(recurring, recurring_id) IN
          /\ recurring' = r.recurring
          /\ last' = [Call("preview_next_run", "", 0, NoTarget, FALSE, r.exc, Balances(accounts))
                        EXCEPT !.recurring_id = recurring_id] @@ [result |-> r.result]
    /\ calls' = calls + 1
    /\ UNCHANGED <<accounts, transactions, next_tx_id, recurring_logs, now, run, eval, overlapping, advance, inflight>>

\* RecurringModel.delete_recurring with soft=True: the rule is read with
\* include_deleted, the UPDATE sets is_deleted and its rowcount is not looked at.
DeleteRecurring ==
    /\ ~run.active
    /\ calls < MaxSchedulerCalls
    /\ \E recurring_id \in RecurringIds :
          /\ recurring' = [recurring EXCEPT ![recurring_id].is_deleted = TRUE]
          /\ last' = [Call("delete_recurring", "", 0, NoTarget, FALSE, "none", Balances(accounts))
                        EXCEPT !.recurring_id = recurring_id]
    /\ calls' = calls + 1
    /\ UNCHANGED <<accounts, transactions, next_tx_id, recurring_logs, now, run, eval, overlapping, advance, inflight>>

\* run_due: the SELECT of the due rules.
RunDueSelect ==
    /\ ~run.active
    /\ calls < MaxSchedulerCalls
    /\ run' = [active |-> TRUE, returned |-> FALSE, rows |-> DueRows(recurring, now, 1),
               idx |-> 1, created_ids |-> <<>>, outcomes |-> <<>>,
               logs_at_start |-> Len(recurring_logs), first_tx_id |-> next_tx_id,
               refused |-> run.refused]
    /\ calls' = calls + 1
    /\ UNCHANGED <<accounts, transactions, next_tx_id, last, recurring, recurring_logs, now, eval, overlapping, advance, inflight>>

\* What the pass p over the row leaves in the tables, what run_due keeps of it
\* (created_ids), and the note of it.
\* RunDuePass for a run_due that lets the store error of the INSERT into
\* recurring_logs out: the invocation ends at that pass.
RunDuePass_raising(p, row, store_failure) ==
    /\ accounts' = p.accounts
    /\ transactions' = p.transactions
    /\ next_tx_id' = p.next_tx_id
    /\ recurring' = p.recurring
    /\ recurring_logs' = p.recurring_logs
    /\ eval' = [recurring_id |-> row.recurring_id, rec |-> row, exc |-> p.exc,
                path |-> p.path, store_failure |-> store_failure,
                created |-> p.created, logs_before |-> Len(recurring_logs),
                balances_before |-> Balances(accounts),
                transactions_before |-> transactions]
    /\ run' = [run EXCEPT !.active = (store_failure # "recurring_logs"),
                          !.idx = @ + 1,
                          !.refused = IF store_failure # "none" THEN @ + 1 ELSE @,
                          !.created_ids = @ \o p.created,
                          !.outcomes = Append(@, [recurring_id |-> row.recurring_id,
                                                  exc |-> p.exc, path |-> p.path,
                                                  created |-> p.created,
                                                  store_failure |-> store_failure])]

RunDuePass(p, row, store_failure) ==
    /\ accounts' = p.accounts
    /\ transactions' = p.transactions
    /\ next_tx_id' = p.next_tx_id
    /\ recurring' = p.recurring
    /\ recurring_logs' = p.recurring_logs
    /\ eval' = [recurring_id |-> row.recurring_id, rec |-> row, exc |-> p.exc,
                path |-> p.path, store_failure |-> store_failure,
                created |-> p.created, logs_before |-> Len(recurring_logs),
                balances_before |-> Balances(accounts),
                transactions_before |-> transactions]
    /\ run' = [run EXCEPT !.idx = @ + 1,
                          !.refused = IF store_failure # "none" THEN @ + 1 ELSE @,
                          !.created_ids = @ \o p.created,
                          !.outcomes = Append(@, [recurring_id |-> row.recurring_id,
                                                  exc |-> p.exc, path |-> p.path,
                                                  created |-> p.created,
                                                  store_failure |-> store_failure])]

\* run_due: one pass of the loop, over the next selected row.  The store
\* refuses at most MaxStoreFailures statements in a behaviour.
\* The points between two committed statements of one pass of run_due at which
\* the process can die: those of create_transaction, after the DELETE that
\* takes the row back and before the INSERT of the failed record, after the
\* UPDATE that consumes skip_next and before the INSERT of the skipped record,
\* after the posting and before the UPDATE that advances the rule, and after
\* that UPDATE and before the INSERT of the generated record.
RunDueCrashPoints ==
    CrashPoints \cup {"crash_after_delete", "crash_after_skip",
                      "crash_after_posting", "crash_after_advance"}

\* The tables at a crash point, and whether the pass gets as far as the point.
Crashed(accts, txs, new_id, rules, logs, crash, reached) ==
    [accounts |-> accts, transactions |-> txs, next_tx_id |-> new_id,
     recurring |-> rules, recurring_logs |-> logs,
     created |-> <<>>, exc |-> "crash", path |-> crash, reached |-> reached]

\* run_due_row_crash for a loop body that advances the rule before it posts.
run_due_row_crash_advance_first(accts, txs, new_id, rules, logs, clock, row, crash) ==
    LET new_next == _calculate_next_due(row.frequency, row.interval_value, row.next_due)
        u == update(rules, row.recurring_id,
                    [last_run |-> clock, last_run_status |-> "success",
                     next_due |-> new_next.date, override_amount |-> NoOverride], FALSE)
    IN Crashed(accts, txs, new_id, u.recurring, logs, crash,
               /\ crash = "crash_after_advance"
               /\ ~Paused(row, clock)
               /\ row.skip_next # 1
               /\ new_next.exc = "none"
               /\ u.exc = "none")

\* The tables as one pass of run_due over row leaves them when the process dies
\* at the point crash: the statements run so far are committed, the except
\* branch and the rest of the pass are not run.
run_due_row_crash(accts, txs, new_id, rules, logs, clock, row, crash) ==
    LET rec == row
        amount_to_use == IF rec.override_amount # NoOverride THEN rec.override_amount ELSE rec.amount
    IN
    IF Paused(rec, clock)
        \* the failed record is the only statement of the pass
        THEN Crashed(accts, txs, new_id, rules, logs, crash, FALSE)
    ELSE IF rec.skip_next = 1 THEN
        LET u == update(rules, rec.recurring_id,
                        [skip_next |-> 0, last_run_status |-> "skipped"], FALSE)
        IN Crashed(accts, txs, new_id, u.recurring, logs, crash,
                   crash = "crash_after_skip" /\ u.exc = "none")
    ELSE IF crash \in CrashPoints THEN
        LET k == create_transaction_crash(accts, txs, new_id, rec.transaction_type,
                                          amount_to_use, rec.account_id,
                                          rec.source_account_id,
                                          rec.destination_account_id, FALSE, crash)
        IN Crashed(k.accounts, k.transactions, new_id + 1, rules, logs, crash, k.reached)
    ELSE
        LET c == create_transaction(accts, txs, new_id, rec.transaction_type, amount_to_use,
                                    rec.account_id, rec.source_account_id,
                                    rec.destination_account_id, FALSE, 0)
            after_id == IF c.inserted THEN new_id + 1 ELSE new_id
            new_next == _calculate_next_due(rec.frequency, rec.interval_value, rec.next_due)
            u == update(rules, rec.recurring_id,
                        [last_run |-> clock, last_run_status |-> "success",
                         next_due |-> new_next.date, override_amount |-> NoOverride], FALSE)
        IN
        IF crash = "crash_after_delete"
            THEN Crashed(c.accounts, c.transactions, after_id, rules, logs, crash,
                         c.inserted /\ c.exc # "none")
        ELSE IF crash = "crash_after_posting"
            THEN Crashed(c.accounts, c.transactions, after_id, rules, logs, crash,
                         c.exc = "none")
        ELSE IF crash = "crash_after_advance"
            THEN Crashed(c.accounts, c.transactions, after_id, u.recurring, logs, crash,
                         c.exc = "none" /\ new_next.exc = "none" /\ u.exc = "none")
        ELSE Crashed(accts, txs, new_id, rules, logs, crash, FALSE)

\* The process dies in the pass over row: the invocation neither goes on to the
\* next row nor returns.
RunDueCrash(p, row) ==
    /\ p.reached
    /\ accounts' = p.accounts
    /\ transactions' = p.transactions
    /\ next_tx_id' = p.next_tx_id
    /\ recurring' = p.recurring
    /\ recurring_logs' = p.recurring_logs
    /\ eval' = [recurring_id |-> row.recurring_id, rec |-> row, exc |-> p.exc,
                path |-> p.path, store_failure |-> "none",
                created |-> p.created, logs_before |-> Len(recurring_logs),
                balances_before |-> Balances(accounts),
                transactions_before |-> transactions]
    /\ run' = [run EXCEPT !.active = FALSE]

CrashRunDueRow ==
    /\ run.active
    /\ run.idx <= Len(run.rows)
    /\ \E crash \in RunDueCrashPoints :
          RunDueCrash(run_due_row_crash(accounts, transactions, next_tx_id, recurring, recurring_logs, now, run.rows[run.idx], crash), run.rows[run.idx])
    /\ UNCHANGED <<calls, last, now, overlapping, advance, inflight>>

RunDueRow ==
    /\ run.active
    /\ run.idx <= Len(run.rows)
    /\ \E store_failure \in ReachableFailures(run.rows[run.idx], now) :
          /\ store_failure # "none" => run.refused < MaxStoreFailures
          /\ RunDuePass(run_due_row(accounts, transactions, next_tx_id, recurring, recurring_logs, now, run.rows[run.idx], store_failure), run.rows[run.idx], store_failure)
    /\ UNCHANGED <<calls, last, now, overlapping, advance, inflight>>

\* run_due: return created_ids.
RunDueReturn ==
    /\ run.active
    /\ run.idx > Len(run.rows)
    /\ run' = [run EXCEPT !.active = FALSE, !.returned = TRUE]
    /\ last' = Call("run_due", "", 0, NoTarget, FALSE, "none", Balances(accounts))
    /\ UNCHANGED <<accounts, transactions, next_tx_id, calls, recurring, recurring_logs, now, eval, overlapping, advance, inflight>>

\* A day passes.
Tick ==
    /\ ~run.active
    /\ DateLT(now, Horizon)
    /\ now' = NextDay(now)
    /\ UNCHANGED <<accounts, transactions, next_tx_id, calls, last, recurring, recurring_logs, run, eval, overlapping, advance, inflight>>

\* A second run_due, called while the first is between two statements: its SELECT.
OverlapSelect ==
    /\ run.active
    /\ ~overlapping.active
    /\ ~overlapping.returned
    /\ calls < MaxSchedulerCalls
    /\ overlapping' = [active |-> TRUE, returned |-> FALSE, rows |-> DueRows(recurring, now, 1),
                       idx |-> 1, outcomes |-> <<>>]
    /\ calls' = calls + 1
    /\ UNCHANGED <<accounts, transactions, next_tx_id, last, recurring, recurring_logs, now, run, eval, advance, inflight>>

\* What the pass p of the second run_due over the row leaves in the tables.
OverlapPass(p, row, store_failure) ==
    /\ accounts' = p.accounts
    /\ transactions' = p.transactions
    /\ next_tx_id' = p.next_tx_id
    /\ recurring' = p.recurring
    /\ recurring_logs' = p.recurring_logs
    /\ run' = [run EXCEPT !.refused = IF store_failure # "none" THEN @ + 1 ELSE @]
    /\ overlapping' = [overlapping EXCEPT
                          !.idx = @ + 1,
                          !.outcomes = Append(@, [recurring_id |-> row.recurring_id,
                                                  exc |-> p.exc, path |-> p.path,
                                                  created |-> p.created,
                                                  store_failure |-> store_failure])]

\* The second run_due: one pass of its loop, over the next row it selected.
OverlapRow ==
    /\ overlapping.active
    /\ overlapping.idx <= Len(overlapping.rows)
    /\ \E store_failure \in ReachableFailures(overlapping.rows[overlapping.idx], now) :
          /\ store_failure # "none" => run.refused < MaxStoreFailures
          /\ OverlapPass(run_due_row(accounts, transactions, next_tx_id, recurring, recurring_logs, now, overlapping.rows[overlapping.idx], store_failure), overlapping.rows[overlapping.idx], store_failure)
    /\ UNCHANGED <<calls, last, now, eval, advance, inflight>>

\* The second run_due returns.
OverlapReturn ==
    /\ overlapping.active
    /\ overlapping.idx > Len(overlapping.rows)
    /\ overlapping' = [overlapping EXCEPT !.active = FALSE, !.returned = TRUE]
    /\ UNCHANGED <<accounts, transactions, next_tx_id, calls, last, recurring, recurring_logs, now, run, eval, advance, inflight>>

NextRecurring ==
    \/ SkipNextOccurrence
    \/ SetOneTimeOverride
    \/ RunDueSelect
    \/ RunDueRow
    \/ RunDueReturn
    \/ Tick

SpecRecurring == InitRecurring /\ [][NextRecurring]_vars

\* Two invocations of run_due for the same owner that overlap: the passes of
\* the two loops interleave in any order.  A pass is one step here; the
\* statements of two passes are not interleaved.
NextOverlap ==
    \/ RunDueSelect
    \/ RunDueRow
    \/ RunDueReturn
    \/ OverlapSelect
    \/ OverlapRow
    \/ OverlapReturn

SpecOverlap == InitRecurring /\ [][NextOverlap]_vars

\* The scheduler with every control operation of a rule.
NextControl ==
    \/ PauseRecurring
    \/ ResumeRecurring
    \/ DeactivateRecurring
    \/ ActivateRecurring
    \/ SkipNextOccurrence
    \/ SetOneTimeOverride
    \/ DeleteRecurring
    \/ PreviewNextRun
    \/ RunDueSelect
    \/ RunDueRow
    \/ RunDueReturn
    \/ Tick

SpecControl == InitRecurring /\ [][NextControl]_vars

\* run_due in a process that can die between two statements of a pass and is
\* started again.
NextRunDueCrash ==
    \/ SkipNextOccurrence
    \/ RunDueSelect
    \/ RunDueRow
    \/ CrashRunDueRow
    \/ RunDueReturn
    \/ Tick

SpecRunDueCrash == InitRecurring /\ [][NextRunDueCrash]_vars

\* The scheduler with pause_recurring as the only control operation: no rule is
\* ever resumed, activated, deactivated or deleted.
NextPause ==
    \/ PauseRecurring
    \/ RunDueSelect
    \/ RunDueRow
    \/ RunDueReturn
    \/ Tick

SpecPause == InitRecurring /\ [][NextPause]_vars

\* ------------------------------------------------------------------ claims
\* What a ledger row adds to an account's balance: a credit on the account or
\* a transfer into it adds the amount, a debit on it or a transfer out of it
\* subtracts the amount.
SignedEffect(tx, a) ==
    (IF tx.transaction_type \in credited_trans_types /\ tx.account_id = a THEN tx.amount ELSE 0)
    + (IF tx.transaction_type \in transfer_types /\ tx.destination_account_id = a THEN tx.amount ELSE 0)
    - (IF tx.transaction_type \in debited_trans_types /\ tx.account_id = a THEN tx.amount ELSE 0)
    - (IF tx.transaction_type \in transfer_types /\ tx.source_account_id = a THEN tx.amount ELSE 0)

RECURSIVE LedgerSum(_, _)
LedgerSum(txs, a) ==
    IF txs = {} THEN 0
    ELSE LET tx == CHOOSE t \in txs : TRUE IN
         (IF tx.is_deleted THEN 0 ELSE SignedEffect(tx, a)) + LedgerSum(txs \ {tx}, a)

\* The call names accounts that exist, as its type needs them.
ValidTargets(c) ==
    IF c.transaction_type \in SingleAccountTypes THEN c.account_id \in AccountIds
    ELSE /\ c.source_account_id \in AccountIds
         /\ c.destination_account_id \in AccountIds
         /\ c.source_account_id # c.destination_account_id

\* The account an apply of the call debits (NoAccount when it debits none), and
\* the account its reverse debits.
DebitedBy(c) ==
    IF c.transaction_type \in debited_trans_types THEN c.account_id
    ELSE IF c.transaction_type \in transfer_types THEN c.source_account_id
    ELSE NoAccount
DebitedByReverse(c) ==
    IF c.transaction_type \in credited_trans_types THEN c.account_id
    ELSE IF c.transaction_type \in transfer_types THEN c.destination_account_id
    ELSE NoAccount

\* The balances an apply of the call is to leave, from the balances before it.
BalancesApplied(c) ==
    [a \in AccountIds |->
        c.before[a] + SignedEffect([transaction_type |-> c.transaction_type,
                                    amount |-> c.amount, account_id |-> c.account_id,
                                    source_account_id |-> c.source_account_id,
                                    destination_account_id |-> c.destination_account_id], a)]

SameData(c, d) ==
    /\ c.transaction_type = d.transaction_type
    /\ c.amount = d.amount
    /\ c.account_id = d.account_id
    /\ c.source_account_id = d.source_account_id
    /\ c.destination_account_id = d.destination_account_id

\* C1: after any sequence of postings, reversals and rebuilds that the store
\* carried out, every account's balance equals its opening balance plus the
\* signed effects of the non-deleted transactions that reference it.
C1_BalanceInvariant ==
    ~last.store_failed =>
        \A a \in AccountIds :
            accounts[a].balance = accounts[a].opening_balance + LedgerSum(transactions, a)

C3_OverdraftGate ==
    (/\ last.op = "apply"
     /\ ValidTargets(last)
     /\ DebitedBy(last) # NoAccount
     /\ ~last.store_failed
     /\ last.before[DebitedBy(last)] < last.amount)
    => IF ~last.allow_overdraft
       THEN /\ last.exc = "InsufficientFundsError"
            /\ Balances(accounts) = last.before
       ELSE /\ last.exc = "none"
            /\ accounts[DebitedBy(last)].balance = last.before[DebitedBy(last)] - last.amount

\* C4: whatever the outcome of a transfer-shaped apply, either the source went
\* down and the destination up by the amount, or neither balance changed.
C4_TransferAtomic ==
    (/\ last.op = "apply"
     /\ last.transaction_type \in transfer_types
     /\ ValidTargets(last))
    => \/ Balances(accounts) = last.before
       \/ Balances(accounts) = BalancesApplied(last)

\* C5: a reverse never raises InsufficientFundsError; reversing a credit, or a
\* transfer, whose debited account holds less than the amount succeeds and
\* leaves that account at balance - amount.
C5_ReverseIgnoresFunds ==
    (/\ last.op = "reverse"
     /\ ValidTargets(last)
     /\ ~last.store_failed)
    => /\ last.exc # "InsufficientFundsError"
       /\ (/\ DebitedByReverse(last) # NoAccount
           /\ last.before[DebitedByReverse(last)] < last.amount)
          => /\ last.exc = "none"
             /\ accounts[DebitedByReverse(last)].balance
                   = last.before[DebitedByReverse(last)] - last.amount

\* C6: rebuild sets the balance to the opening balance plus the signed sum of
\* the non-deleted transactions of the account, whatever the balance was, and
\* reports new - old as the difference and the number of those transactions.
C6_RebuildRecomputes ==
    (/\ last.op = "rebuild"
     /\ last.account_id \in AccountIds
     /\ ~last.store_failed)
    => /\ last.exc = "none"
       /\ accounts[last.account_id].balance
             = accounts[last.account_id].opening_balance
               + LedgerSum(transactions, last.account_id)
       /\ last.difference = accounts[last.account_id].balance - last.before[last.account_id]
       /\ last.transactions_processed
             = Cardinality({tx \in transactions :
                               /\ ~tx.is_deleted
                               /\ last.account_id \in {tx.account_id, tx.source_account_id,
                                                       tx.destination_account_id}})

\* C7: two rebuilds of an account in a row both succeed, leave the same balance,
\* and the second reports a difference of zero.
C7_RebuildIdempotent ==
    [][(/\ last.op = "rebuild"
        /\ last'.op = "rebuild"
        /\ last.account_id = last'.account_id
        /\ last.account_id \in AccountIds
        /\ ~last'.store_failed)
       => /\ last.exc = "none"
          /\ last'.exc = "none"
          /\ accounts'[last.account_id].balance = accounts[last.account_id].balance
          /\ last'.difference = 0]_vars

\* The records run_due has appended for a rule since the invocation began.
RunRecords(r, status) ==
    {i \in (run.logs_at_start + 1)..Len(recurring_logs) :
        recurring_logs[i].recurring_id = r /\ recurring_logs[i].status = status}

\* The passes of the invocation over a rule that raised.
RaisedPasses(r) ==
    {i \in 1..Len(run.outcomes) :
        run.outcomes[i].recurring_id = r /\ run.outcomes[i].exc # "none"}

\* What run_due owes for the transactions: every id it returns is a row of the
\* ledger, and every pass that posted has its id returned and recorded.
ReturnsPostedIds ==
    /\ \A k \in 1..Len(run.created_ids) :
          \E tx \in transactions : tx.transaction_id = run.created_ids[k]
    /\ \A i \in 1..Len(run.outcomes) :
          run.outcomes[i].path = "generated" =>
              \E k \in 1..Len(run.created_ids), j \in RunRecords(run.outcomes[i].recurring_id, "generated") :
                  recurring_logs[j].posted_transaction_id = run.created_ids[k]

\* Every selected rule got its pass, in the order selected.
EveryRowProcessed ==
    /\ Len(run.outcomes) = Len(run.rows)
    /\ \A i \in 1..Len(run.rows) : run.outcomes[i].recurring_id = run.rows[i].recurring_id

\* C8 (as claimed): when run_due returns, every selected rule was processed
\* whether or not a rule before it raised, the ids returned are those of the
\* rules that posted, and each rule that raised has exactly one failed record.
C8_BatchIsolation ==
    run.returned =>
        /\ EveryRowProcessed
        /\ ReturnsPostedIds
        /\ \A r \in RecurringIds :
              Cardinality(RunRecords(r, "failed")) = Cardinality(RaisedPasses(r))

\* C8 (amended): the same, except that a rule that raised has exactly one
\* failed record when the store took the history insert, and none when the
\* store refused it.
C8_BatchIsolationRecorded ==
    run.returned =>
        /\ EveryRowProcessed
        /\ ReturnsPostedIds
        /\ \A r \in RecurringIds :
              Cardinality(RunRecords(r, "failed"))
                = Cardinality({i \in RaisedPasses(r) :
                                  run.outcomes[i].store_failure # "recurring_logs"})

\* A returned invocation whose first rule raised and has its failed record, and
\* whose second rule was processed after it and has its skipped record.
C8_Witness ==
    /\ run.returned
    /\ Len(run.rows) >= 2
    /\ run.outcomes[1].exc # "none"
    /\ Cardinality(RunRecords(run.rows[1].recurring_id, "failed")) = 1
    /\ run.outcomes[2].exc = "none"
    /\ Cardinality(RunRecords(run.rows[2].recurring_id, "skipped")) = 1

\* A step of run_due's loop: one pass over the next selected row.
RowStep == run.active /\ run'.active /\ run'.idx = run.idx + 1

\* The ledger can take the posting of the rule at the amount: its accounts
\* exist and are active, and the account it debits holds the amount.
Postable(rec, amount) ==
    IF rec.transaction_type \in SingleAccountTypes THEN
        /\ rec.account_id \in AccountIds
        /\ accounts[rec.account_id].is_active
        /\ rec.transaction_type \in debited_trans_types
              => accounts[rec.account_id].balance >= amount
    ELSE
        /\ rec.source_account_id \in AccountIds
        /\ rec.destination_account_id \in AccountIds
        /\ rec.source_account_id # rec.destination_account_id
        /\ accounts[rec.source_account_id].is_active
        /\ accounts[rec.destination_account_id].is_active
        /\ accounts[rec.source_account_id].balance >= amount

\* The pass posted the rule at the amount: one new ledger row of the rule's
\* type and accounts, and a generated record that names it.
Posted(rec, amount) ==
    /\ Len(recurring_logs') = Len(recurring_logs) + 1
    /\ recurring_logs'[Len(recurring_logs')].recurring_id = rec.recurring_id
    /\ recurring_logs'[Len(recurring_logs')].status = "generated"
    /\ recurring_logs'[Len(recurring_logs')].amount_used = amount
    /\ \E tx \in transactions' \ transactions :
          /\ tx.transaction_type = rec.transaction_type
          /\ tx.amount = amount
          /\ tx.transaction_id = recurring_logs'[Len(recurring_logs')].posted_transaction_id
          /\ transactions' = transactions \cup {tx}

\* The last record of the rule is the one a consumed skip_next leaves.
SkipWasLast(r) ==
    \E i \in 1..Len(recurring_logs) :
        /\ recurring_logs[i].recurring_id = r
        /\ recurring_logs[i].status = "skipped"
        /\ \A j \in (i + 1)..Len(recurring_logs) : recurring_logs[j].recurring_id # r

\* C9: a pass over a due rule with skip_next set clears the flag, posts
\* nothing, leaves next_due as it was and appends one skipped record; the pass
\* of the next run_due over the rule, its flag now clear, posts the transaction.
C9_SkipNextConsumedOnce ==
    [][(/\ RowStep
        /\ eval'.rec.pause_until = NoDate
        /\ eval'.store_failure = "none")
       => /\ eval'.rec.skip_next = 1
             => /\ recurring'[eval'.recurring_id].skip_next = 0
                /\ recurring'[eval'.recurring_id].next_due = eval'.rec.next_due
                /\ transactions' = transactions
                /\ accounts' = accounts
                /\ Len(recurring_logs') = Len(recurring_logs) + 1
                /\ recurring_logs'[Len(recurring_logs')].recurring_id = eval'.recurring_id
                /\ recurring_logs'[Len(recurring_logs')].status = "skipped"
          /\ (/\ eval'.rec.skip_next = 0
              /\ SkipWasLast(eval'.recurring_id)
              /\ Postable(eval'.rec, IF eval'.rec.override_amount # NoOverride
                                     THEN eval'.rec.override_amount ELSE eval'.rec.amount))
             => Posted(eval'.rec, IF eval'.rec.override_amount # NoOverride
                                  THEN eval'.rec.override_amount ELSE eval'.rec.amount)]_vars

\* C10: a pass over a due rule with an override amount set, not paused and not
\* skipped, posts the transaction at the override amount, records it with
\* override_used, and leaves the rule's override_amount null.
C10_OverrideUsedOnce ==
    [][(/\ RowStep
        /\ eval'.rec.pause_until = NoDate
        /\ eval'.rec.skip_next = 0
        /\ eval'.rec.override_amount # NoOverride
        /\ eval'.store_failure = "none"
        /\ Postable(eval'.rec, eval'.rec.override_amount))
       => /\ Posted(eval'.rec, eval'.rec.override_amount)
          /\ recurring_logs'[Len(recurring_logs')].override_used
          /\ recurring'[eval'.recurring_id].override_amount = NoOverride]_vars

\* C11: a pass of run_due over a selected rule (due and active) whose
\* pause_until is after today posts nothing: the ledger and the balances stay
\* as they were, and the rule keeps its skip_next, override_amount and next_due.
C11_PausedRuleUntouched ==
    [][(/\ RowStep
        /\ eval'.rec.pause_until # NoDate
        /\ DateLT(DateOf(now), DateOf(eval'.rec.pause_until)))
       => /\ transactions' = transactions
          /\ Balances(accounts') = Balances(accounts)
          /\ recurring'[eval'.recurring_id].skip_next = eval'.rec.skip_next
          /\ recurring'[eval'.recurring_id].override_amount = eval'.rec.override_amount
          /\ recurring'[eval'.recurring_id].next_due = eval'.rec.next_due
          /\ recurring'[eval'.recurring_id].skip_next = recurring[eval'.recurring_id].skip_next
          /\ recurring'[eval'.recurring_id].override_amount = recurring[eval'.recurring_id].override_amount
          /\ recurring'[eval'.recurring_id].next_due = recurring[eval'.recurring_id].next_due]_vars

\* run_due has just passed over a selected rule that is paused until tomorrow.
C11_Witness ==
    /\ run.active
    /\ run.idx > 1
    /\ run.rows[run.idx - 1].pause_until # NoDate
    /\ DateLT(DateOf(now), DateOf(run.rows[run.idx - 1].pause_until))
    /\ eval.recurring_id = run.rows[run.idx - 1].recurring_id
    /\ run.rows[run.idx - 1].is_active
    /\ DateLE(run.rows[run.idx - 1].next_due, now)

\* The exceptions create_transaction raises: the pass that ended with one of
\* them raised while posting.
PostingExceptions == {"TransactionValidationError", "DatabaseError"}

\* The passes of the invocation over a rule that raised while posting.
PostingRaised(r) ==
    {i \in 1..Len(run.outcomes) :
        run.outcomes[i].recurring_id = r /\ run.outcomes[i].exc \in PostingExceptions}

\* The next invocation selects every rule whose posting raised in this one.
SelectedAgain ==
    (~run.active /\ run'.active) =>
        \A r \in RecurringIds :
            PostingRaised(r) # {} =>
                \E k \in 1..Len(run'.rows) : run'.rows[k].recurring_id = r

\* The pass appended one failed record of the rule with the exception as message.
FailedRecordAppended ==
    /\ Len(recurring_logs') = Len(recurring_logs) + 1
    /\ recurring_logs'[Len(recurring_logs')].recurring_id = eval'.recurring_id
    /\ recurring_logs'[Len(recurring_logs')].status = "failed"
    /\ recurring_logs'[Len(recurring_logs')].message = eval'.exc

\* C12 (as claimed): a pass whose posting raises appends a failed record with
\* the exception message and leaves next_due as it was, and the next run_due
\* invocation selects the rule again.
C12_FailedPostRetried ==
    [][/\ (RowStep /\ eval'.exc \in PostingExceptions)
           => /\ FailedRecordAppended
              /\ recurring'[eval'.recurring_id].next_due = recurring[eval'.recurring_id].next_due
       /\ SelectedAgain]_vars

\* C12 (amended): the same, except that the failed record is appended when the
\* store takes the history insert, and no record is appended when it refuses it.
C12_FailedPostRetriedRecorded ==
    [][/\ (RowStep /\ eval'.exc \in PostingExceptions)
           => /\ IF eval'.store_failure = "recurring_logs"
                 THEN recurring_logs' = recurring_logs
                 ELSE FailedRecordAppended
              /\ recurring'[eval'.recurring_id].next_due = recurring[eval'.recurring_id].next_due
       /\ SelectedAgain]_vars

\* A second invocation has passed over a rule whose posting raised in the
\* invocation before: the rule has a failed record from each.
C12_Witness ==
    /\ run.active
    /\ \E r \in RecurringIds :
          /\ PostingRaised(r) # {}
          /\ \E i \in 1..run.logs_at_start, j \in (run.logs_at_start + 1)..Len(recurring_logs) :
                /\ recurring_logs[i].recurring_id = r
                /\ recurring_logs[i].status = "failed"
                /\ recurring_logs[i].message \in PostingExceptions
                /\ recurring_logs[j].recurring_id = r
                /\ recurring_logs[j].status = "failed"
                /\ recurring_logs[j].message \in PostingExceptions

\* The amount a posting pass over the rule uses.
AmountToUse(rec) == IF rec.override_amount # NoOverride THEN rec.override_amount ELSE rec.amount

SelectedIds == {run.rows[k].recurring_id : k \in 1..Len(run.rows)}

\* C14: run_due selects exactly the rules that are active, not deleted and
\* have next_due <= now; selecting and returning change nothing; a pass of
\* the loop is over a selected rule, changes no other rule and appends records
\* of no other rule.  So a rule that is inactive, deleted or not yet due at
\* selection keeps every field and gets no record, and an invocation that
\* selects nothing posts nothing.
C14_OnlyDueRulesTouched ==
    [][/\ (~run.active /\ run'.active)
           => /\ \A r \in RecurringIds :
                    (\E k \in 1..Len(run'.rows) : run'.rows[k] = recurring[r])
                    <=> (/\ recurring[r].is_active
                         /\ ~recurring[r].is_deleted
                         /\ DateLE(recurring[r].next_due, now))
              /\ Len(run'.rows) <= NumRules
              /\ UNCHANGED <<accounts, transactions, recurring, recurring_logs>>
       /\ RowStep
           => /\ eval'.recurring_id \in SelectedIds
              /\ \A r \in RecurringIds \ {eval'.recurring_id} : recurring'[r] = recurring[r]
              /\ \A r \in RecurringIds \ SelectedIds : recurring'[r] = recurring[r]
              /\ \A i \in (Len(recurring_logs) + 1)..Len(recurring_logs') :
                    recurring_logs'[i].recurring_id = eval'.recurring_id
              /\ SubSeq(recurring_logs', 1, Len(recurring_logs)) = recurring_logs
       /\ (run.active /\ ~run'.active)
           => UNCHANGED <<accounts, transactions, recurring, recurring_logs>>]_vars

\* An invocation has passed over a due rule while another rule, inactive or
\* deleted, and possibly a third, not yet due, was left out and has no record
\* of the invocation.
C14_Witness ==
    /\ run.active
    /\ run.idx > 1
    /\ Len(recurring_logs) > run.logs_at_start
    /\ \E r \in RecurringIds \ SelectedIds :
          /\ ~recurring[r].is_active \/ recurring[r].is_deleted
          /\ DateLE(recurring[r].next_due, now)
          /\ \A i \in 1..Len(recurring_logs) : recurring_logs[i].recurring_id # r

\* Both invocations selected the rule for the same occurrence and have passed
\* over it: pass i of the first, pass j of the second.
SameOccurrence(i, j) ==
    /\ run.rows[i].recurring_id = overlapping.rows[j].recurring_id
    /\ run.rows[i].next_due = overlapping.rows[j].next_due

\* C15: when two overlapping invocations of run_due have both selected a rule
\* for the same occurrence and both have passed over it, the rule being one
\* whose posting needs no funds (a credit), each has posted a transaction: the
\* ledger holds two transactions for the one occurrence.
C15_OverlapPostsTwice ==
    \A i \in 1..Len(run.outcomes), j \in 1..Len(overlapping.outcomes) :
        (/\ SameOccurrence(i, j)
         /\ run.rows[i].transaction_type \in credited_trans_types
         /\ run.rows[i].pause_until = NoDate /\ run.rows[i].skip_next = 0
         /\ overlapping.rows[j].pause_until = NoDate /\ overlapping.rows[j].skip_next = 0
         /\ run.outcomes[i].store_failure = "none"
         /\ overlapping.outcomes[j].store_failure = "none")
        => /\ Len(run.outcomes[i].created) = 1
           /\ Len(overlapping.outcomes[j].created) = 1
           /\ run.outcomes[i].created # overlapping.outcomes[j].created
           /\ \A id \in {run.outcomes[i].created[1], overlapping.outcomes[j].created[1]} :
                 \E tx \in transactions :
                     /\ tx.transaction_id = id
                     /\ ~tx.is_deleted
                     /\ tx.transaction_type = run.rows[i].transaction_type

\* The number of the month of a datetime, counted from year 0.
MonthNumber(d) == 12 * d.year + (d.month - 1)

\* The proleptic Gregorian ordinal of the day of a datetime (date.toordinal).
DaysBeforeMonth(year, month) ==
    <<0, 31, 59, 90, 120, 151, 181, 212, 243, 273, 304, 334>>[month]
    + (IF month > 2 /\ IsLeap(year) THEN 1 ELSE 0)
Ordinal(d) ==
    365 * (d.year - 1) + ((d.year - 1) \div 4) - ((d.year - 1) \div 100)
    + ((d.year - 1) \div 400) + DaysBeforeMonth(d.year, d.month) + d.day

\* The length of a month, from the calendar's rule.
LastValidDay(year, month) ==
    CASE month \in {1, 3, 5, 7, 8, 10, 12} -> 31
      [] month \in {4, 6, 9, 11} -> 30
      [] OTHER -> IF year % 400 = 0 \/ (year % 4 = 0 /\ year % 100 # 0) THEN 29 ELSE 28

\* r is d moved on by the number of months: the month that many after d's, the
\* day of d or the last valid day of that month if d's day is past it, the
\* time of day of d.
MovedByMonths(d, months, r) ==
    /\ r.month \in 1..12
    /\ MonthNumber(r) = MonthNumber(d) + months
    /\ r.day = (IF d.day < LastValidDay(r.year, r.month)
                THEN d.day ELSE LastValidDay(r.year, r.month))
    /\ r.tod = d.tod

\* C16: the monthly advance of a datetime d by an interval n >= 1 lies in the
\* month n months after d's, has the day of d capped to the last valid day of
\* that month, and has d's time of day; 2024-01-31 advances by one month to
\* 2024-02-29 and 2023-01-31 to 2023-02-28.
C16_MonthlyAdvanceCapsDay ==
    (advance.called /\ advance.frequency = "monthly")
    => /\ advance.exc = "none"
       /\ MovedByMonths(advance.last_due, advance.interval, advance.result)
       /\ (advance.interval = 1 /\ advance.last_due.month = 1 /\ advance.last_due.day = 31)
          => /\ advance.last_due.year = 2024
                => advance.result = [year |-> 2024, month |-> 2, day |-> 29,
                                     tod |-> advance.last_due.tod]
             /\ advance.last_due.year = 2023
                => advance.result = [year |-> 2023, month |-> 2, day |-> 28,
                                     tod |-> advance.last_due.tod]

\* The monthly advance of 2024-01-31 at noon by one has been computed: it is
\* 2024-02-29 at noon.
C16_Witness ==
    /\ advance.called
    /\ advance.frequency = "monthly"
    /\ advance.interval = 1
    /\ advance.last_due = [year |-> 2024, month |-> 1, day |-> 31, tod |-> 43200]
    /\ advance.result = [year |-> 2024, month |-> 2, day |-> 29, tod |-> 43200]

\* C17: the daily advance of d by n is the datetime n days after d, the weekly
\* advance the datetime 7n days after d, both at d's time of day, and the
\* yearly advance is the monthly advance of d by 12n months: d moved on by 12n
\* months, its day capped; yearly from 2024-02-29 by one gives 2025-02-28.
C17_DailyWeeklyYearlyAdvance ==
    advance.called
    => /\ advance.frequency = "daily"
          => /\ advance.exc = "none"
             /\ advance.result.day \in 1..LastValidDay(advance.result.year, advance.result.month)
             /\ Ordinal(advance.result) = Ordinal(advance.last_due) + advance.interval
             /\ advance.result.tod = advance.last_due.tod
       /\ advance.frequency = "weekly"
          => /\ advance.exc = "none"
             /\ advance.result.day \in 1..LastValidDay(advance.result.year, advance.result.month)
             /\ Ordinal(advance.result) = Ordinal(advance.last_due) + 7 * advance.interval
             /\ advance.result.tod = advance.last_due.tod
       /\ advance.frequency = "yearly"
          => /\ advance.exc = "none"
             /\ advance.result = _add_months(advance.last_due, 12 * advance.interval)
             /\ MovedByMonths(advance.last_due, 12 * advance.interval, advance.result)
             /\ (/\ advance.interval = 1
                 /\ advance.last_due.year = 2024
                 /\ advance.last_due.month = 2
                 /\ advance.last_due.day = 29)
                => advance.result = [year |-> 2025, month |-> 2, day |-> 28,
                                     tod |-> advance.last_due.tod]

\* The yearly advance of 2024-02-29 by one has been computed: it is 2025-02-28.
C17_Witness ==
    /\ advance.called
    /\ advance.frequency = "yearly"
    /\ advance.interval = 1
    /\ advance.last_due = [year |-> 2024, month |-> 2, day |-> 29, tod |-> 0]
    /\ advance.result = [year |-> 2025, month |-> 2, day |-> 28, tod |-> 0]

\* C18: a call of preview_next_run for a rule returns the rule's stored
\* next_due, last_run, amount and last_run_status, and leaves the rules with
\* their skip_next and override_amount, the ledger, the balances and the
\* history as they were; the rules a run_due would select after it are those
\* it would have selected before it.
C18_PreviewChangesNothing ==
    [][(last'.op = "preview_next_run" /\ calls' = calls + 1 /\ run' = run)
       => /\ recurring' = recurring
          /\ transactions' = transactions
          /\ accounts' = accounts
          /\ recurring_logs' = recurring_logs
          /\ next_tx_id' = next_tx_id
          /\ DueRows(recurring', now', 1) = DueRows(recurring, now, 1)
          /\ last'.recurring_id \in RecurringIds
             => /\ last'.exc = "none"
                /\ last'.result.next_due = recurring[last'.recurring_id].next_due
                /\ last'.result.last_run = recurring[last'.recurring_id].last_run
                /\ last'.result.amount = recurring[last'.recurring_id].amount
                /\ last'.result.preview_status = recurring[last'.recurring_id].last_run_status]_vars

\* A rule with skip_next set was previewed, and the run_due after the preview
\* has found the flag still set and consumed it.
C18_Witness ==
    /\ last.op = "preview_next_run"
    /\ last.exc = "none"
    /\ last.result.next_due = StartDate
    /\ run.active
    /\ run.idx > 1
    /\ eval.recurring_id = last.recurring_id
    /\ eval.rec.skip_next = 1
    /\ eval.path = "skipped"

\* The control operations of a rule, and the fields each one names.
ControlOps ==
    {"pause_recurring", "resume_recurring", "skip_next_occurrence",
     "set_one_time_override", "activate_recurring", "deactivate_recurring"}
ControlFields(op) ==
    CASE op = "pause_recurring" -> {"pause_until", "is_active"}
      [] op = "resume_recurring" -> {"pause_until", "is_active"}
      [] op = "skip_next_occurrence" -> {"skip_next"}
      [] op = "set_one_time_override" -> {"override_amount"}
      [] OTHER -> {"is_active"}

\* C19: a call of pause, resume, skip next, set override, activate or
\* deactivate changes at most the fields it names of the rule it names: the
\* rule's next_due and every other rule stay as they were, and so do the
\* ledger's transactions and the accounts with their balances.
C19_ControlOpsTouchOneRule ==
    [][(last'.op \in ControlOps /\ calls' = calls + 1 /\ run' = run)
       => /\ \A r \in RecurringIds \ {last'.recurring_id} : recurring'[r] = recurring[r]
          /\ \A f \in DOMAIN recurring[last'.recurring_id] \ ControlFields(last'.op) :
                recurring'[last'.recurring_id][f] = recurring[last'.recurring_id][f]
          /\ recurring'[last'.recurring_id].next_due = recurring[last'.recurring_id].next_due
          /\ transactions' = transactions
          /\ next_tx_id' = next_tx_id
          /\ accounts' = accounts]_vars

\* A rule has been paused until tomorrow: it is inactive and has the date, and
\* its next_due is still the day it was created with.
C19_Witness ==
    /\ last.op = "pause_recurring"
    /\ last.exc = "none"
    /\ ~recurring[last.recurring_id].is_active
    /\ recurring[last.recurring_id].pause_until = Horizon
    /\ recurring[last.recurring_id].next_due = StartDate
    /\ \E r \in RecurringIds \ {last.recurring_id} :
          recurring[r].is_active /\ recurring[r].pause_until = NoDate

\* The account is none of the caller's, or is not active.
InactiveOrNotFound(a) == a \notin AccountIds \/ ~accounts[a].is_active

\* The accounts the call refers to, by its type.
Referenced(c) ==
    IF c.transaction_type \in transfer_types
    THEN {c.source_account_id, c.destination_account_id}
    ELSE {c.account_id}

\* The cases of the claim: same source and destination for a transfer-shaped
\* type, a missing account for the type, an unknown type, or a referenced
\* account that is inactive or not found.
Refusable(c) ==
    \/ c.transaction_type \in transfer_types /\ c.source_account_id = c.destination_account_id
    \/ c.transaction_type \in SingleAccountTypes /\ c.account_id = NoAccount
    \/ c.transaction_type \in transfer_types
          /\ (c.source_account_id = NoAccount \/ c.destination_account_id = NoAccount)
    \/ c.transaction_type \notin TransactionTypes
    \/ \E a \in Referenced(c) : InactiveOrNotFound(a)

\* A transfer-shaped call between two different accounts whose source is
\* active and lacks the funds, overdraft not allowed, and whose destination is
\* inactive or not found.
ShortOfFundsFirst(c) ==
    /\ c.transaction_type \in transfer_types
    /\ c.source_account_id # NoAccount
    /\ c.destination_account_id # NoAccount
    /\ c.source_account_id # c.destination_account_id
    /\ ~InactiveOrNotFound(c.source_account_id)
    /\ InactiveOrNotFound(c.destination_account_id)
    /\ ~c.allow_overdraft
    /\ c.before[c.source_account_id] < c.amount

\* C20 (as claimed): apply_transaction_change raises the validation error and
\* changes no balance in each of the cases of the claim.
C20_InvalidApplyRefused ==
    (last.op = "apply" /\ Refusable(last))
    => /\ last.exc = "BalanceValidationError"
       /\ Balances(accounts) = last.before

\* C20 (amended): the same, except that a transfer-shaped call whose only
\* fault is its destination, and whose source lacks the funds without
\* overdraft, raises InsufficientFundsError; it changes no balance either.
C20_InvalidApplyRefusedFundsFirst ==
    (last.op = "apply" /\ Refusable(last))
    => /\ last.exc = (IF ShortOfFundsFirst(last) THEN "InsufficientFundsError"
                      ELSE "BalanceValidationError")
       /\ Balances(accounts) = last.before

\* A credit to an inactive account has been refused, after a transfer to an
\* account that is not the caller's was.
C20_Witness ==
    /\ calls = 2
    /\ last.op = "apply"
    /\ last.transaction_type = "income"
    /\ last.account_id \in AccountIds
    /\ ~accounts[last.account_id].is_active
    /\ last.amount > 0
    /\ last.exc = "BalanceValidationError"
    /\ Balances(accounts) = [a \in AccountIds |-> OpeningBalance]
\* ---------------------------------------------------------------------- C21
\* The accounts rebuild_all_balances listed as active, in the order listed.
ListedActive(c) == SelectSeq(c.all_accounts, LAMBDA account : account.is_active)

\* The entry of the i-th listed active account reports a rebuild and the
\* account holds the rebuilt balance.
EntryRebuilt(c, i) ==
    /\ c.results[i].error = "none"
    /\ c.results[i].new_balance = accounts[c.results[i].account_id].balance
    /\ accounts[c.results[i].account_id].balance
         = accounts[c.results[i].account_id].opening_balance
           + RebuildSum(RebuildRows(transactions, c.results[i].account_id), c.results[i].account_id)

C21_RebuildAllAttemptsEach ==
    last.op = "rebuild_all" =>
        /\ last.exc = "none"
        /\ Len(last.results) = Len(ListedActive(last))
        /\ \A i \in DOMAIN last.results :
              /\ last.results[i].account_id = ListedActive(last)[i].account_id
              /\ last.results[i].account_id = last.account_id
                    => /\ last.results[i].error = "AccountDataBaseError"
                       /\ accounts[last.account_id].balance = last.before[last.account_id]
              /\ last.results[i].account_id # last.account_id
                    => accounts[last.results[i].account_id].balance
                         = accounts[last.results[i].account_id].opening_balance
                           + RebuildSum(RebuildRows(transactions, last.results[i].account_id),
                                        last.results[i].account_id)

\* Two active accounts, the first listed refused by the store, the second
\* brought back from a balance that had drifted.
C21_Witness ==
    /\ last.op = "rebuild_all"
    /\ Len(last.results) = 2
    /\ last.results[1].account_id = last.account_id
    /\ last.before[last.results[2].account_id] # accounts[last.results[2].account_id].balance
    /\ last.results[2].error # "none"

\* ---------------------------------------------------------------------- C22
\* The rows of the store that are user_id's, with what the call gave back.
OwnRows(store, user_id) ==
    [accounts |-> {store.accounts[a] : a \in {b \in DOMAIN store.accounts :
                                                 store.accounts[b].owner_id = user_id}},
     transactions |-> {tx \in store.transactions : tx.user_id = user_id},
     recurring |-> {store.recurring[r] : r \in {q \in DOMAIN store.recurring :
                                                   store.recurring[q].owner_id = user_id}},
     recurring_logs |-> SelectSeq(store.recurring_logs, LAMBDA h : h.owner_id = user_id),
     exc |-> store.exc, created |-> store.created]

\* The rows of the store that are another user's.
OtherRows(store, user_id) ==
    [accounts |-> {<<a, store.accounts[a]>> : a \in {b \in DOMAIN store.accounts :
                                                       store.accounts[b].owner_id # user_id}},
     transactions |-> {tx \in store.transactions : tx.user_id # user_id},
     recurring |-> {store.recurring[r] : r \in {q \in DOMAIN store.recurring :
                                                   store.recurring[q].owner_id # user_id}},
     recurring_logs |-> SelectSeq(store.recurring_logs, LAMBDA h : h.owner_id # user_id)]

\* Other data for the other users: balances and states of their accounts, their
\* ledger rows gone or not, their rules switched off and marked to skip or not.
OtherData == [balance : Amounts, is_active : BOOLEAN, ledger : BOOLEAN, rules : BOOLEAN]

\* The store with the rows of the other users replaced by other data.
WithOtherData(store, user_id, other) ==
    [store EXCEPT
        !.accounts = [a \in DOMAIN @ |->
                        IF @[a].owner_id = user_id THEN @[a]
                        ELSE [@[a] EXCEPT !.balance = other.balance,
                                          !.is_active = other.is_active]],
        !.transactions = {tx \in @ : tx.user_id = user_id \/ other.ledger},
        !.recurring = [r \in DOMAIN @ |->
                         IF @[r].owner_id = user_id \/ other.rules THEN @[r]
                         ELSE [@[r] EXCEPT !.is_active = FALSE, !.skip_next = 1]]]

TenantOps == {"apply", "reverse", "rebuild", "create", "run_due"}

\* C22: a run_due, an apply, a reverse, a rebuild or a posting called by a user
\* leaves every account, ledger row, rule and execution record of another user
\* as it was, and what it gives the caller (the exception, the created ids, the
\* caller's balances, rules, ledger rows and records) is what it would have
\* given had the other users' rows been any other.
C22_TenantIsolation ==
    last.op \in TenantOps =>
        /\ OtherRows(Store, last.user_id) = OtherRows(last.before, last.user_id)
        /\ \A other \in OtherData :
              OwnRows(TenantCall(WithOtherData(last.before, last.user_id, other),
                                 last.user_id, last.call, now), last.user_id)
                = OwnRows(Store @@ [exc |-> last.exc, created |-> last.created], last.user_id)

\* A run_due that changed a balance of its caller while an account of another
\* user, changed earlier by that user, was in the store.
C22_Witness ==
    /\ last.op = "run_due"
    /\ \E a \in AccountIds :
          /\ accounts[a].owner_id # last.user_id
          /\ last.before.accounts[a].balance # OpeningBalance
    /\ \E b \in AccountIds :
          /\ accounts[b].owner_id = last.user_id
          /\ accounts[b].balance # last.before.accounts[b].balance

\* ---------------------------------------------------------------------- C23
\* C23: whatever step is taken (a statement of run_due, pause, resume, skip,
\* override, activate, deactivate, delete, preview, a day passing), every
\* execution record there was is still there, at its place and unchanged.
C23_HistoryAppendOnly ==
    [][/\ Len(recurring_logs') >= Len(recurring_logs)
       /\ SubSeq(recurring_logs', 1, Len(recurring_logs)) = recurring_logs]_vars

\* A second run_due has returned after appending to the records of the first.
C23_Witness ==
    /\ run.returned
    /\ run.logs_at_start >= 1
    /\ Len(recurring_logs) > run.logs_at_start
    /\ \E i \in 1..run.logs_at_start, j \in (run.logs_at_start + 1)..Len(recurring_logs) :
          recurring_logs[i].recurring_id = recurring_logs[j].recurring_id

\* ---------------------------------------------------------------------- C24
\* C24: a call of _calculate_next_due with a frequency that is not daily,
\* weekly, monthly or yearly raises RecurringValidationError and returns no
\* date.
C24_UnknownFrequencyRaises ==
    (advance.called /\ advance.frequency \notin {"daily", "weekly", "monthly", "yearly"})
        => /\ advance.exc = "RecurringValidationError"
           /\ advance.result = NoDate

\* The call was made with a frequency spelt with a capital.
C24_Witness ==
    /\ advance.called
    /\ advance.frequency = "Monthly"
    /\ advance.exc # "none"

\* ---------------------------------------------------------------------- C25
\* C25: a pass of run_due over a selected rule (due and active) whose
\* pause_until is after today, with no statement refused by the store, appends
\* one execution record of the rule, and its status is skipped, not failed.
C25_PausedRuleRecordedSkipped ==
    [][(/\ RowStep
        /\ eval'.rec.pause_until # NoDate
        /\ DateLT(DateOf(now), DateOf(eval'.rec.pause_until))
        /\ eval'.store_failure = "none")
       => /\ Len(recurring_logs') = Len(recurring_logs) + 1
          /\ recurring_logs'[Len(recurring_logs')].recurring_id = eval'.recurring_id
          /\ recurring_logs'[Len(recurring_logs')].status = "skipped"]_vars

\* ---------------------------------------------------------------------- C26
\* The outcome of the evaluation e of a rule: skipped when the rule was paused
\* or its skip_next was consumed, failed when the pass raised, success when it
\* posted.
EvaluationOutcome(e) ==
    IF (e.rec.pause_until # NoDate /\ DateLT(DateOf(now), DateOf(e.rec.pause_until)))
       \/ (e.rec.skip_next = 1 /\ e.exc = "none")
        THEN "skipped"
    ELSE IF e.exc # "none" THEN "failed"
    ELSE "success"

\* C26: after a pass of run_due over a selected rule, with no statement refused
\* by the store, the rule's stored last_run_status is the outcome of the pass.
C26_LastRunStatusIsOutcome ==
    [][(RowStep /\ eval'.store_failure = "none")
       => recurring'[eval'.recurring_id].last_run_status = EvaluationOutcome(eval')]_vars

\* ---------------------------------------------------------------------- C27
\* The pass reached the posting step for a rule with an override: the rule was
\* neither paused nor marked to skip.
ReachedPostingWithOverride ==
    /\ RowStep
    /\ ~(eval'.rec.pause_until # NoDate /\ DateLT(DateOf(now), DateOf(eval'.rec.pause_until)))
    /\ eval'.rec.skip_next # 1
    /\ eval'.rec.override_amount # NoOverride

C28_PauseEndsAtDate ==
    [][(~run.active /\ run'.active)
       => \A r \in RecurringIds :
            (/\ recurring[r].pause_until # NoDate
             /\ DateLT(DateOf(recurring[r].pause_until), DateOf(now))
             /\ DateLE(recurring[r].next_due, now)
             /\ ~recurring[r].is_deleted)
            => \E k \in 1..Len(run'.rows) : run'.rows[k].recurring_id = r]_vars

\* ---------------------------------------------------------------------- C29
\* C29: when the process dies in create_transaction after the INSERT of the row
\* and before the balance UPDATE, the row is in transactions, not deleted, with
\* the type and amount of the call, and every account balance is what it was
\* before the call: the row's balance effect has not been applied.
C29_CrashLeavesRowUnapplied ==
    last.op = "crash_after_insert"
        => /\ \E t \in transactions :
                /\ t.transaction_id = last.transaction_id
                /\ t.transaction_type = last.transaction_type
                /\ t.amount = last.amount
                /\ ~t.is_deleted
           /\ Balances(accounts) = last.before

\* The process has died after the INSERT of an income of a positive amount: the
\* row is in transactions and the account has not been credited.
C29_Witness ==
    /\ last.op = "crash_after_insert"
    /\ last.transaction_type = "income"
    /\ last.amount > 0
    /\ \E t \in transactions :
          /\ t.transaction_id = last.transaction_id
          /\ ~t.is_deleted
          /\ accounts[t.account_id].balance = last.before[t.account_id]

\* ---------------------------------------------------------------------- C30
\* The tables p of a crashed pass over row hold the rule moved on from the
\* occurrence of row and no transaction row that was not there before the pass.
AdvancedWithoutPosting(p, row, txs) ==
    /\ p.reached
    /\ p.recurring[row.recurring_id].next_due # row.next_due
    /\ p.transactions \subseteq txs

\* C30 (as claimed): a pass of run_due over a selected rule has a point between
\* two of its statements at which a crash leaves the rule's next_due advanced
\* past the occurrence and no transaction posted for it.
C30_CrashLeavesAdvanceWithoutPosting ==
    (run.active /\ run.idx <= Len(run.rows))
        => \E crash \in RunDueCrashPoints :
              AdvancedWithoutPosting(run_due_row_crash(accounts, transactions, next_tx_id, recurring, recurring_logs, now, run.rows[run.idx], crash), run.rows[run.idx], transactions)

\* C30 (amended): after a crash between two statements of a pass of run_due,
\* the rule's next_due is advanced past the occurrence only if a transaction
\* row for the occurrence is in the ledger; after a crash between the INSERT of
\* the row and the DELETE that takes it back, the row is in the ledger and
\* next_due is the occurrence still.
C30_CrashLeavesPostingWithoutAdvance ==
    eval.exc = "crash"
        => /\ recurring[eval.recurring_id].next_due # eval.rec.next_due
                => \E t \in transactions : t \notin eval.transactions_before
           /\ eval.path \in CrashPoints
                => /\ \E t \in transactions : t \notin eval.transactions_before
                   /\ recurring[eval.recurring_id].next_due = eval.rec.next_due

\* The process has died after the INSERT of the row of a due rule: the row is
\* in the ledger, the rule is due for the same occurrence still.
C30_Witness ==
    /\ eval.exc = "crash"
    /\ eval.path = "crash_after_insert"
    /\ \E t \in transactions : t \notin eval.transactions_before
    /\ recurring[eval.recurring_id].next_due = eval.rec.next_due
    /\ DateLE(recurring[eval.recurring_id].next_due, now)

\* ---------------------------------------------------------------------- C31
\* The pass q over the same row with no statement refused.
SamePassButForRecord(q) ==
    /\ accounts' = q.accounts
    /\ transactions' = q.transactions
    /\ next_tx_id' = q.next_tx_id
    /\ recurring' = q.recurring
    /\ eval'.exc = q.exc
    /\ eval'.created = q.created
    /\ run'.created_ids = run.created_ids \o q.created
    /\ Len(q.recurring_logs) = Len(recurring_logs) + 1
    /\ recurring_logs' = recurring_logs

AppendedFailedRecord ==
    /\ RowStep
    /\ Len(recurring_logs') = Len(recurring_logs) + 1
    /\ recurring_logs'[Len(recurring_logs')].status = "failed"
    /\ recurring_logs'[Len(recurring_logs')].recurring_id = eval'.recurring_id

\* C32: a pass of run_due that appends a failed execution record of a rule
\* leaves the ledger without a row made in the pass, every account balance as
\* it was, the rule's next_due as it was, and adds no id to the list returned.
C32_FailedRecordMeansNoEffect ==
    [][AppendedFailedRecord
       => /\ transactions' = transactions
          /\ Balances(accounts') = Balances(accounts)
          /\ recurring'[eval'.recurring_id].next_due = recurring[eval'.recurring_id].next_due
          /\ run'.created_ids = run.created_ids]_vars

SignedAmount(c) ==
    IF inflight[c].transaction_type \in debited_trans_types
    THEN 0 - inflight[c].amount ELSE inflight[c].amount

\* C34: when the calls of apply_transaction_change on the two connections have
\* both committed their UPDATE of the same account, whatever the order of their
\* reads and writes, the balance of the account is the balance it had before
\* the two calls plus the signed amounts of both.
C34_NoLostUpdate ==
    (/\ \A c \in Connections : inflight[c].pc = "done" /\ inflight[c].wrote
     /\ inflight[1].account_id = inflight[2].account_id)
        => accounts[inflight[1].account_id].balance
             = OpeningBalance + SignedAmount(1) + SignedAmount(2)

\* ---------------------------------------------------------------------- C35
\* The account a posting of rule rec takes the amount from.
DebitedAccount(rec) ==
    IF rec.transaction_type \in debited_trans_types THEN rec.account_id
    ELSE rec.source_account_id

\* The pass reached the posting step for a rule of a debit or transfer type
\* whose amount is more than the account holds.
PostingWouldOverdraw ==
    /\ RowStep
    /\ ~Paused(eval'.rec, now)
    /\ eval'.rec.skip_next # 1
    /\ eval'.rec.transaction_type \in debited_trans_types \cup transfer_types
    /\ DebitedAccount(eval'.rec) \in AccountIds
    /\ AmountToUse(eval'.rec) > accounts[DebitedAccount(eval'.rec)].balance

\* The pass appended a failed record of the rule and nothing else.
OneFailedRecord ==
    /\ Len(recurring_logs') = Len(recurring_logs) + 1
    /\ SubSeq(recurring_logs', 1, Len(recurring_logs)) = recurring_logs
    /\ recurring_logs'[Len(recurring_logs')].status = "failed"
    /\ recurring_logs'[Len(recurring_logs')].recurring_id = eval'.recurring_id

\* No pass of run_due takes a balance that is not negative below zero.
NeverBelowZero ==
    \A a \in AccountIds : accounts[a].balance >= 0 => accounts'[a].balance >= 0

\* C35 (as claimed): no pass of run_due takes a non-negative balance below
\* zero, and a pass over a due rule of a debit or transfer type whose amount
\* exceeds the balance of the (source) account leaves no transaction in the
\* ledger, every balance as it was and a failed record of the rule.
C35_NoOverdraftByRunDue ==
    [][(RowStep => NeverBelowZero)
       /\ (PostingWouldOverdraw
            => /\ transactions' = transactions
               /\ run'.created_ids = run.created_ids
               /\ Balances(accounts') = Balances(accounts)
               /\ OneFailedRecord)]_vars

\* C35 (amended): the same, but the inserted row stays in the ledger when the
\* store refuses the DELETE that takes it back, and there is no failed record
\* when the store refuses its INSERT.
C35_NoOverdraftUnlessStoreRefuses ==
    [][(RowStep => NeverBelowZero)
       /\ (PostingWouldOverdraw
            => /\ eval'.store_failure # "transactions_delete" => transactions' = transactions
               /\ run'.created_ids = run.created_ids
               /\ Balances(accounts') = Balances(accounts)
               /\ IF eval'.store_failure = "recurring_logs"
                  THEN recurring_logs' = recurring_logs
                  ELSE OneFailedRecord)]_vars

\* A pass has tried to post an expense of more than the account held: the
\* balances are those before the pass, the ledger has no row of the pass and
\* the last record is the failed record of the rule.
C35_Witness ==
    /\ run.active
    /\ run.idx > 1
    /\ eval.recurring_id = run.rows[run.idx - 1].recurring_id
    /\ eval.rec.transaction_type = "expense"
    /\ eval.rec.skip_next # 1
    /\ AmountToUse(eval.rec) > eval.balances_before[eval.rec.account_id]
    /\ eval.balances_before[eval.rec.account_id] >= 0
    /\ Balances(accounts) = eval.balances_before
    /\ transactions = eval.transactions_before
    /\ Len(recurring_logs) = eval.logs_before + 1
    /\ recurring_logs[Len(recurring_logs)].status = "failed"

\* ---------------------------------------------------------------------- C36
\* The store has refused no statement of the passes of the invocation so far.
NoStoreFailureInRun ==
    \A k \in 1..Len(run.outcomes) : run.outcomes[k].store_failure = "none"

\* The records appended since the invocation began.
RecordsOfRun == SubSeq(recurring_logs, run.logs_at_start + 1, Len(recurring_logs))

\* C36: in a run_due invocation none of whose statements the store has
\* refused, the records appended so far are one for each rule processed so far,
\* in the order of processing, each generated, skipped or failed, and the
\* generated ones are as many as the ids collected for the returned list; at
\* the return every selected rule has its one record.
C36_OneRecordPerSelectedRule ==
    ((run.active \/ run.returned) /\ NoStoreFailureInRun)
        => /\ Len(RecordsOfRun) = Len(run.outcomes)
           /\ \A k \in 1..Len(RecordsOfRun) :
                /\ RecordsOfRun[k].recurring_id = run.rows[k].recurring_id
                /\ RecordsOfRun[k].status \in {"generated", "skipped", "failed"}
           /\ Cardinality({k \in 1..Len(RecordsOfRun) : RecordsOfRun[k].status = "generated"})
                = Len(run.created_ids)
           /\ run.returned => Len(run.outcomes) = Len(run.rows)

\* An invocation over two rules or more has returned with no statement
\* refused: one rule was skipped, another failed, each has its record.
C36_Witness ==
    /\ run.returned
    /\ NoStoreFailureInRun
    /\ Len(run.rows) >= 2
    /\ Len(RecordsOfRun) = Len(run.rows)
    /\ \E j, k \in 1..Len(RecordsOfRun) :
          /\ RecordsOfRun[j].status = "skipped"
          /\ RecordsOfRun[k].status = "failed"

\* ---------------------------------------------------------------------- C37
\* C37: the monthly advance by one of the monthly advance by one of a datetime
\* is its monthly advance by two; a datetime on the 29th, 30th or 31st is on
\* that day of the month again after two advances by one whenever the month
\* two months on has that day.
C37_MonthlyAdvanceComposes ==
    (/\ advance.called
     /\ advance.frequency = "monthly"
     /\ advance.interval = 1
     /\ advance.exc = "none")
        => /\ _calculate_next_due("monthly", 1, advance.result).date
                = _calculate_next_due("monthly", 2, advance.last_due).date
           /\ advance.last_due.day
                <= LastValidDay(_calculate_next_due("monthly", 2, advance.last_due).date.year,
                                _calculate_next_due("monthly", 2, advance.last_due).date.month)
              => _calculate_next_due("monthly", 1, advance.result).date.day = advance.last_due.day

RepeatedControlCall ==
    /\ calls' = calls + 1
    /\ last'.recurring_id \in RecurringIds
    /\ ~recurring[last'.recurring_id].is_deleted
    /\ \/ /\ last'.op = "activate_recurring"
          /\ recurring[last'.recurring_id].is_active
       \/ /\ last'.op = "skip_next_occurrence"
          /\ recurring[last'.recurring_id].skip_next = 1
       \/ /\ last'.op = "resume_recurring"
          /\ recurring[last'.recurring_id].is_active
          /\ recurring[last'.recurring_id].pause_until = NoDate

\* C39: a control call that asks for what the rule already is returns without
\* raising and leaves every rule as it was.
C39_ControlCallsIdempotent ==
    [][RepeatedControlCall
       => /\ last'.exc = "none"
          /\ recurring' = recurring]_vars
====
